---------------------------- MODULE Spec2Model ----------------------------
(***************************************************************************)
(* A model of combicode (src/combicode-js/index.js): the merge pipeline of *)
(* main() (read + scan + nest, the two-pass ML resolver, the code index,   *)
(* the document writer) and the parser of recreateFromFile().              *)
(*                                                                         *)
(* TEXT.  A text is a sequence of lexemes (strings).  A lexeme stands for  *)
(* one character, or for a span of characters none of which the program    *)
(* tells apart (no newline, blank, backtick, bracket or brace inside).     *)
(* The lexemes the program does tell apart are named below.                *)
(***************************************************************************)
EXTENDS Integers, Sequences, FiniteSets, TLC

NL == "\n"
SP == " "
\* One backtick character (a TLA+ string cannot hold the backtick itself).
BT == "'"
LB == "["
RB == "]"
LBRACE == "{"
RBRACE == "}"
SLASH == "/"
BACKSLASH == "\\"
\* The literal text "# FILE:" of the current header, "### **FILE:**" of the
\* legacy header and "(Content omitted" of the placeholder line.
HDR == "# FILE:"
LEGACY_HDR == "### **FILE:**"
OMITTED_PREFIX == "(Content omitted"

\* "````": the four-backtick fence.
Fence == <<BT, BT, BT, BT>>

----------------------------------------------------------------------------
(* String primitives of JavaScript, on texts.                             *)

RECURSIVE SplitFrom(_, _, _)
\* The parts of s from place i on: up to the next separator, and on from
\* there.
SplitFrom(s, sep, i) ==
    IF \E e \in i..Len(s) : s[e] = sep
    THEN LET e == CHOOSE x \in i..Len(s) :
                     s[x] = sep /\ \A d \in i..(x - 1) : s[d] # sep
         IN  <<SubSeq(s, i, e - 1)>> \o SplitFrom(s, sep, e + 1)
    ELSE <<SubSeq(s, i, Len(s))>>

\* String.prototype.split(sep) for a one-character separator: "" gives [""],
\* "a\n" gives ["a", ""].
Split(s, sep) == SplitFrom(s, sep, 1)

EndsWith(s, ch) == Len(s) > 0 /\ s[Len(s)] = ch

IsSpace(ch) == ch \in {SP, NL}

RECURSIVE TrimLeft(_)
TrimLeft(s) ==
    IF s # <<>> /\ IsSpace(Head(s)) THEN TrimLeft(Tail(s)) ELSE s

RECURSIVE TrimRight(_)
TrimRight(s) ==
    IF s # <<>> /\ IsSpace(s[Len(s)]) THEN TrimRight(SubSeq(s, 1, Len(s) - 1))
    ELSE s

\* String.prototype.trim().
Trim(s) == TrimRight(TrimLeft(s))

\* line.match(/^(\s*)/)[1].length: the length of the leading blank run.
LeadingSpace(s) == Len(s) - Len(TrimLeft(s))

Includes(s, ch) == \E i \in 1..Len(s) : s[i] = ch

RECURSIVE ByteLength(_)
\* Buffer.byteLength(text, "utf8"): the lexemes are ASCII text.
ByteLength(s) ==
    IF s = <<>> THEN 0 ELSE Len(Head(s)) + ByteLength(Tail(s))

\* formatBytes(bytes): below 1024 bytes the unit is "B" and the value prints
\* as the integer itself ("0B" for 0).
formatBytes(bytes) == ToString(bytes) \o "B"

----------------------------------------------------------------------------
(* SCANNER.  A line is a text.  The head of a trimmed line is its first    *)
(* lexeme; the head lexemes below stand for the declaration and statement  *)
(* texts the parsers' regular expressions recognise, written in the syntax *)
(* of the file's language (so "def f" is `def f(...):` in Python and       *)
(* `function f(...)` in JavaScript).                                       *)

Names == {"f", "__init__", "constructor", "initialize", "__construct",
          "init", "test_a", "testA", "TestA"}
\* name.startsWith("test_"), .startsWith("test"), .startsWith("Test")
StartsWith_test_(n) == n \in {"test_a"}
StartsWith_test(n) == n \in {"test_a", "testA"}
StartsWith_Test(n) == n \in {"TestA"}

\* A container declaration (class, struct, interface, enum, trait, ...).
ClassHead == "class C"
\* A function declaration with the language's keyword or return type.
FnHead(n) == "def " \o n
\* The same with the async / suspend modifier.
AsyncHead(n) == "async def " \o n
\* `name(...)` with neither keyword nor return type.
BareHead(n) == n \o "()"
\* for / while / loop / foreach statement.
LoopHead == "for i"
ImplHead == "impl X"
DescribeHead == "describe s"
ItHead == "it s"
ArrowHead == "const f = () =>"
AsyncArrowHead == "const f = async () =>"
PackageHead == "package P"
\* Any other block-opening keyword (if, unless, case, begin, ...).
OpenKw == "if c"
EndKw == "end"
DoneKw == "done"

FnHeads == {FnHead(n) : n \in Names}
AsyncHeads == {AsyncHead(n) : n \in Names}
BareHeads == {BareHead(n) : n \in Names}
NameOf(h) ==
    CHOOSE n \in Names : h \in {FnHead(n), AsyncHead(n), BareHead(n)}

RECURSIVE BraceScan(_, _, _, _, _)
\* The character loop of findBraceBlockEnd: i is the 0-based line, j the
\* 1-based place in it.
BraceScan(lines, i, j, depth, foundOpen) ==
    IF i >= Len(lines) THEN Len(lines) - 1
    ELSE IF j > Len(lines[i + 1])
    THEN BraceScan(lines, i + 1, 1, depth, foundOpen)
    ELSE IF lines[i + 1][j] = LBRACE
    THEN BraceScan(lines, i, j + 1, depth + 1, TRUE)
    ELSE IF lines[i + 1][j] = RBRACE
    THEN IF foundOpen /\ depth - 1 = 0 THEN i
         ELSE BraceScan(lines, i, j + 1, depth - 1, foundOpen)
    ELSE BraceScan(lines, i, j + 1, depth, foundOpen)

\* findBraceBlockEnd whose scan starts on the first line of the array
\* rather than on startLine.
findBraceBlockEnd_FromTop(lines, startLine) ==
    BraceScan(lines, 0, 1, 0, FALSE)

\* findBraceBlockEnd(lines, startLine), 0-based.
findBraceBlockEnd(lines, startLine) ==
    BraceScan(lines, startLine, 1, 0, FALSE)

RECURSIVE IndentScan(_, _, _)
IndentScan(lines, i, baseIndent) ==
    IF i >= Len(lines) THEN Len(lines) - 1
    ELSE IF Trim(lines[i + 1]) = <<>> THEN IndentScan(lines, i + 1, baseIndent)
    ELSE IF LeadingSpace(lines[i + 1]) <= baseIndent THEN i - 1
    ELSE IndentScan(lines, i + 1, baseIndent)

\* findIndentBlockEnd returning `i` where the code returns `i - 1`: the
\* block takes in the line that ends it.
findIndentBlockEnd_LineAfter(lines, startLine) ==
    IF startLine >= Len(lines) THEN startLine
    ELSE IF IndentScan(lines, startLine + 1,
                       LeadingSpace(lines[startLine + 1])) < Len(lines) - 1
    THEN IndentScan(lines, startLine + 1,
                    LeadingSpace(lines[startLine + 1])) + 1
    ELSE Len(lines) - 1

\* findIndentBlockEnd that takes the indentation of the defining line to
\* be zero.
findIndentBlockEnd_ZeroBase(lines, startLine) ==
    IF startLine >= Len(lines) THEN startLine
    ELSE IndentScan(lines, startLine + 1, 0)

\* findIndentBlockEnd(lines, startLine), 0-based.
findIndentBlockEnd(lines, startLine) ==
    IF startLine >= Len(lines) THEN startLine
    ELSE IndentScan(lines, startLine + 1, LeadingSpace(lines[startLine + 1]))

LineHead(trimmed) == IF trimmed = <<>> THEN "" ELSE trimmed[1]
LastLexeme(trimmed) == IF trimmed = <<>> THEN "" ELSE trimmed[Len(trimmed)]

\* /^(class|module|def|do|if|unless|case|while|until|for|begin)\b/ or a
\* trailing `do`: the line opens a Ruby block.
RubyOpens(trimmed) ==
    LineHead(trimmed) \in {ClassHead, OpenKw, LoopHead} \cup FnHeads

RECURSIVE RubyScan(_, _, _)
RubyScan(lines, i, depth) ==
    IF i >= Len(lines) THEN Len(lines) - 1
    ELSE LET trimmed == Trim(lines[i + 1])
             d1 == IF RubyOpens(trimmed) THEN depth + 1 ELSE depth
         IN  IF LineHead(trimmed) = EndKw
             THEN IF d1 - 1 = 0 THEN i ELSE RubyScan(lines, i + 1, d1 - 1)
             ELSE RubyScan(lines, i + 1, d1)

\* findRubyBlockEnd(lines, startLine), 0-based.
findRubyBlockEnd(lines, startLine) == RubyScan(lines, startLine, 0)

\* /\b(function|if|for|while|repeat)\b/ anywhere in the line.
LuaOpens(trimmed) ==
    \E k \in 1..Len(trimmed) : trimmed[k] \in {OpenKw, LoopHead} \cup FnHeads

RECURSIVE LuaScan(_, _, _)
LuaScan(lines, i, depth) ==
    IF i >= Len(lines) THEN Len(lines) - 1
    ELSE LET trimmed == Trim(lines[i + 1])
             d1 == IF LuaOpens(trimmed) THEN depth + 1 ELSE depth
         IN  IF LineHead(trimmed) = EndKw
             THEN IF d1 - 1 = 0 THEN i ELSE LuaScan(lines, i + 1, d1 - 1)
             ELSE LuaScan(lines, i + 1, d1)

\* findLuaBlockEnd(lines, startLine), 0-based.
findLuaBlockEnd(lines, startLine) == LuaScan(lines, startLine, 0)

RECURSIVE DoneScan(_, _, _)
DoneScan(lines, i, j) ==
    IF j >= Len(lines) THEN i
    ELSE IF Trim(lines[j + 1]) = <<DoneKw>> THEN j
    ELSE DoneScan(lines, i, j + 1)

\* The `done` search of parseBash: the first later line that is exactly
\* `done`, or the loop's own line when there is none.
findDone(lines, i) == DoneScan(lines, i, i + 1)

RECURSIVE SumBytes(_, _, _)
SumBytes(lines, i, endLine) ==
    IF i <= endLine /\ i < Len(lines)
    THEN ByteLength(lines[i + 1]) + 1 + SumBytes(lines, i + 1, endLine)
    ELSE 0

\* computeByteSize(lines, startLine, endLine), 0-based.
computeByteSize(lines, startLine, endLine) == SumBytes(lines, startLine, endLine)

\* buildElement: the lines become 1-indexed.
buildElement(type, label, startLine, endLine, lines) ==
    [type |-> type, label |-> label, startLine |-> startLine + 1,
     endLine |-> endLine + 1,
     size |-> computeByteSize(lines, startLine, endLine)]

\* The design constant of the loop filter: `end - i + 1 > 5`.
LOOP_MIN_LINES == 5

\* A rule whose `end - i + 1 > 5` filter is left out.
Rule_Unfiltered(heads, brace, colon, finder, loop, multi) ==
    [heads |-> heads, brace |-> brace, colon |-> colon, finder |-> finder,
     loop |-> FALSE, multi |-> multi]

(* A rule of a parser: one `m = trimmed.match(...); if (m) {...}` block.   *)
(*   heads   the heads the regular expression matches                      *)
(*   brace   what the expression or its `if` asks of "{": "any" nothing,  *)
(*           "here" one on the line, "next" one right after the head,      *)
(*           "nextOrEol" one right after the head or nothing at all,       *)
(*           "hereOrNextLine" one on the line or leading the next line     *)
(*   colon   the expression is anchored at a final ":" (Python loops)      *)
(*   finder  the block-end function                                        *)
(*   loop    the `end - i + 1 > 5` filter applies                          *)
(*   multi   the `end > i` filter applies (arrow functions)                *)
Rule(heads, brace, colon, finder, loop, multi) ==
    [heads |-> heads, brace |-> brace, colon |-> colon, finder |-> finder,
     loop |-> loop, multi |-> multi]

\* The heads of Python that end with ":" (a loop's `(.+):\s*$` may run up
\* to the colon of a later head on the line).
ColonHeads == {ClassHead, LoopHead} \cup FnHeads \cup AsyncHeads

BraceOK(mode, lines, i, trimmed) ==
    LET after == TrimLeft(Tail(trimmed))
    IN  CASE mode = "any" -> TRUE
          [] mode = "here" -> Includes(trimmed, LBRACE)
          [] mode = "next" -> after # <<>> /\ after[1] = LBRACE
          [] mode = "nextOrEol" -> after = <<>> \/ after[1] = LBRACE
          [] mode = "hereOrNextLine" ->
                \/ Includes(trimmed, LBRACE)
                \/ /\ i + 1 < Len(lines)
                   /\ LineHead(Trim(lines[i + 2])) = LBRACE

\* The regular expression of rule r matches the trimmed line i.
RuleMatches(r, lines, i) ==
    LET trimmed == Trim(lines[i + 1])
    IN  /\ trimmed # <<>>
        /\ trimmed[1] \in r.heads
        /\ BraceOK(r.brace, lines, i, trimmed)
        /\ r.colon => LastLexeme(trimmed) \in ColonHeads

BlockEnd(finder, lines, i) ==
    CASE finder = "brace" -> findBraceBlockEnd(lines, i)
      [] finder = "indent" -> findIndentBlockEnd(lines, i)
      [] finder = "ruby" -> findRubyBlockEnd(lines, i)
      [] finder = "lua" -> findLuaBlockEnd(lines, i)
      [] finder = "done" -> findDone(lines, i)
      [] finder = "self" -> i

\* The first rule of the parser that matches line i, 0 when none does.
FirstRule(rules, lines, i) ==
    IF \E k \in 1..Len(rules) : RuleMatches(rules[k], lines, i)
    THEN CHOOSE k \in 1..Len(rules) :
            /\ RuleMatches(rules[k], lines, i)
            /\ \A j \in 1..(k - 1) : ~RuleMatches(rules[j], lines, i)
    ELSE 0

\* The label of an element: `${kind} ${name}` and the like.
LabelOf(type, head) ==
    IF head \in FnHeads \cup AsyncHeads \cup BareHeads
    THEN type \o " " \o NameOf(head) \o "()"
    ELSE IF head = LoopHead THEN "loop " \o head
    ELSE head

\* The rules of each parser, in the order of its source.
RulesOf(lang) ==
    CASE lang = "py" ->
           <<Rule({ClassHead}, "any", FALSE, "indent", FALSE, FALSE),
             Rule(AsyncHeads, "any", FALSE, "indent", FALSE, FALSE),
             Rule(FnHeads, "any", FALSE, "indent", FALSE, FALSE),
             Rule({LoopHead}, "any", TRUE, "indent", TRUE, FALSE)>>
      [] lang = "js" ->
           <<Rule({ClassHead}, "any", FALSE, "brace", FALSE, FALSE),
             Rule({DescribeHead}, "any", FALSE, "brace", FALSE, FALSE),
             Rule({ItHead}, "any", FALSE, "brace", FALSE, FALSE),
             Rule(AsyncHeads, "any", FALSE, "brace", FALSE, FALSE),
             Rule(FnHeads, "any", FALSE, "brace", FALSE, FALSE),
             Rule({ArrowHead, AsyncArrowHead}, "hereOrNextLine", FALSE,
                  "brace", FALSE, TRUE),
             Rule({LoopHead}, "any", FALSE, "brace", TRUE, FALSE)>>
      [] lang = "ts" ->
           <<Rule({ClassHead}, "any", FALSE, "brace", FALSE, FALSE),
             Rule({DescribeHead}, "any", FALSE, "brace", FALSE, FALSE),
             Rule({ItHead}, "any", FALSE, "brace", FALSE, FALSE),
             Rule(AsyncHeads, "any", FALSE, "brace", FALSE, FALSE),
             Rule(FnHeads, "any", FALSE, "brace", FALSE, FALSE),
             Rule({ArrowHead, AsyncArrowHead}, "here", FALSE, "brace",
                  FALSE, TRUE),
             Rule({LoopHead}, "any", FALSE, "brace", TRUE, FALSE)>>
      [] lang = "go" ->
           <<Rule({ClassHead}, "any", FALSE, "brace", FALSE, FALSE),
             Rule(FnHeads, "any", FALSE, "brace", FALSE, FALSE),
             Rule({LoopHead}, "here", FALSE, "brace", TRUE, FALSE)>>
      [] lang = "rs" ->
           <<Rule({ClassHead}, "any", FALSE, "brace", FALSE, FALSE),
             Rule({ImplHead}, "here", FALSE, "brace", FALSE, FALSE),
             Rule(FnHeads \cup AsyncHeads, "any", FALSE, "brace", FALSE, FALSE),
             Rule({LoopHead}, "here", FALSE, "brace", TRUE, FALSE)>>
      [] lang = "java" ->
           <<Rule({ClassHead}, "any", FALSE, "brace", FALSE, FALSE),
             Rule(FnHeads \cup BareHeads, "next", FALSE, "brace", FALSE, FALSE),
             Rule({LoopHead}, "any", FALSE, "brace", TRUE, FALSE)>>
      [] lang = "c" ->
           <<Rule({ClassHead}, "any", FALSE, "brace", FALSE, FALSE),
             Rule(FnHeads, "nextOrEol", FALSE, "brace", FALSE, FALSE),
             Rule({LoopHead}, "any", FALSE, "brace", TRUE, FALSE)>>
      [] lang = "cs" ->
           <<Rule({ClassHead}, "any", FALSE, "brace", FALSE, FALSE),
             Rule(FnHeads \cup AsyncHeads, "any", FALSE, "brace", FALSE, FALSE),
             Rule({LoopHead}, "any", FALSE, "brace", TRUE, FALSE)>>
      [] lang = "php" ->
           <<Rule({ClassHead}, "any", FALSE, "brace", FALSE, FALSE),
             Rule(FnHeads, "any", FALSE, "brace", FALSE, FALSE),
             Rule({LoopHead}, "any", FALSE, "brace", TRUE, FALSE)>>
      [] lang = "rb" ->
           <<Rule({ClassHead}, "any", FALSE, "ruby", FALSE, FALSE),
             Rule(FnHeads, "any", FALSE, "ruby", FALSE, FALSE)>>
      [] lang = "swift" ->
           <<Rule({ClassHead}, "any", FALSE, "brace", FALSE, FALSE),
             Rule(FnHeads, "any", FALSE, "brace", FALSE, FALSE),
             Rule({LoopHead}, "here", FALSE, "brace", TRUE, FALSE)>>
      [] lang = "kt" ->
           <<Rule({ClassHead}, "any", FALSE, "brace", FALSE, FALSE),
             Rule(FnHeads \cup AsyncHeads, "any", FALSE, "brace", FALSE, FALSE),
             Rule({LoopHead}, "any", FALSE, "brace", TRUE, FALSE)>>
      [] lang = "scala" ->
           <<Rule({ClassHead}, "any", FALSE, "brace", FALSE, FALSE),
             Rule(FnHeads, "any", FALSE, "brace", FALSE, FALSE)>>
      [] lang = "lua" ->
           <<Rule(FnHeads, "any", FALSE, "lua", FALSE, FALSE),
             Rule({LoopHead}, "any", FALSE, "lua", TRUE, FALSE)>>
      [] lang = "pl" ->
           <<Rule({PackageHead}, "any", FALSE, "self", FALSE, FALSE),
             Rule(FnHeads, "any", FALSE, "brace", FALSE, FALSE)>>
      [] lang = "sh" ->
           <<Rule(FnHeads \cup BareHeads, "any", FALSE, "brace", FALSE, FALSE),
             Rule({LoopHead}, "any", FALSE, "done", TRUE, FALSE)>>

\* The kind a parser gives a function-like head (its `type` expression).
FnTypeOf(lang, head) ==
    LET n == NameOf(head)
        async == head \in AsyncHeads
    IN  CASE lang = "py" ->
               IF n = "__init__" THEN "ctor"
               ELSE IF async THEN "async"
               ELSE IF StartsWith_test_(n) THEN "test" ELSE "fn"
          [] lang = "js" ->
               IF async THEN "async"
               ELSE IF n = "constructor" THEN "ctor" ELSE "fn"
          [] lang = "ts" -> IF async THEN "async" ELSE "fn"
          [] lang = "go" -> IF StartsWith_Test(n) THEN "test" ELSE "fn"
          [] lang = "rs" ->
               IF StartsWith_test_(n) THEN "test"
               ELSE IF async THEN "async" ELSE "fn"
          [] lang = "java" ->
               IF head \in BareHeads THEN "ctor"
               ELSE IF StartsWith_test(n) THEN "test" ELSE "fn"
          [] lang = "cs" -> IF async THEN "async" ELSE "fn"
          [] lang = "php" ->
               IF n = "__construct" THEN "ctor"
               ELSE IF StartsWith_test(n) THEN "test" ELSE "fn"
          [] lang = "rb" ->
               IF n = "initialize" THEN "ctor"
               ELSE IF StartsWith_test_(n) THEN "test" ELSE "fn"
          [] lang = "swift" ->
               IF n = "init" THEN "ctor"
               ELSE IF StartsWith_test(n) THEN "test" ELSE "fn"
          [] lang = "kt" ->
               IF StartsWith_test(n) THEN "test"
               ELSE IF async THEN "async" ELSE "fn"
          [] lang = "scala" -> IF StartsWith_test(n) THEN "test" ELSE "fn"
          [] OTHER -> "fn"

\* The kind the matching block of the parser gives the element.
TypeOf(lang, head) ==
    IF head \in FnHeads \cup AsyncHeads \cup BareHeads THEN FnTypeOf(lang, head)
    ELSE IF head = LoopHead THEN "loop"
    ELSE IF head = ImplHead THEN "impl"
    ELSE IF head = DescribeHead THEN "describe"
    ELSE IF head = ItHead THEN "test"
    ELSE IF head = ArrowHead THEN "fn"
    ELSE IF head = AsyncArrowHead THEN "async"
    ELSE "class"

RECURSIVE ParseFrom(_, _, _)
\* The `for (let i = 0; i < lines.length; i++)` loop of a parser, from line
\* i on.
ParseFrom(lang, lines, i) ==
    IF i >= Len(lines) THEN <<>>
    ELSE LET rules == RulesOf(lang)
             k == FirstRule(rules, lines, i)
             head == Trim(lines[i + 1])[1]
             end == BlockEnd(rules[k].finder, lines, i)
             emits == /\ k # 0
                      /\ rules[k].loop => end - i + 1 > LOOP_MIN_LINES
                      /\ rules[k].multi => end > i
         IN  (IF emits
              THEN <<buildElement(TypeOf(lang, head),
                                  LabelOf(TypeOf(lang, head), head),
                                  i, end, lines)>>
              ELSE <<>>) \o ParseFrom(lang, lines, i + 1)

parsePython(lines) == ParseFrom("py", lines, 0)
parseJavaScript(lines) == ParseFrom("js", lines, 0)
parseTypeScript(lines) == ParseFrom("ts", lines, 0)
parseGo(lines) == ParseFrom("go", lines, 0)
parseRust(lines) == ParseFrom("rs", lines, 0)
parseJava(lines) == ParseFrom("java", lines, 0)
parseCCpp(lines) == ParseFrom("c", lines, 0)
parseCSharp(lines) == ParseFrom("cs", lines, 0)
parsePHP(lines) == ParseFrom("php", lines, 0)
parseRuby(lines) == ParseFrom("rb", lines, 0)
parseSwift(lines) == ParseFrom("swift", lines, 0)
parseKotlin(lines) == ParseFrom("kt", lines, 0)
parseScala(lines) == ParseFrom("scala", lines, 0)
parseLua(lines) == ParseFrom("lua", lines, 0)
parsePerl(lines) == ParseFrom("pl", lines, 0)
parseBash(lines) == ParseFrom("sh", lines, 0)

\* The extensions main() can meet, as the last lexeme of a path.
Extensions ==
    {".py", ".js", ".jsx", ".mjs", ".cjs", ".ts", ".tsx", ".mts", ".cts",
     ".go", ".rs", ".java", ".c", ".h", ".cpp", ".hpp", ".cc", ".cxx", ".cs",
     ".php", ".rb", ".swift", ".kt", ".kts", ".scala", ".sc", ".lua", ".pl",
     ".pm", ".sh", ".bash", ".zsh", ".txt"}

\* path.extname(filePath).toLowerCase(): the extension lexeme that ends the
\* base name, "" when there is none (a name that is only an extension, such
\* as ".py", has none).
extname(filePath) ==
    IF /\ Len(filePath) >= 2
       /\ filePath[Len(filePath)] \in Extensions
       /\ filePath[Len(filePath) - 1] # SLASH
    THEN filePath[Len(filePath)]
    ELSE ""

\* parseCodeStructure(filePath, content): the flat element list.
parseCodeStructure(filePath, content) ==
    LET ext == extname(filePath)
        lines == Split(content, NL)
    IN  CASE ext = ".py" -> parsePython(lines)
          [] ext \in {".js", ".jsx", ".mjs", ".cjs"} -> parseJavaScript(lines)
          [] ext \in {".ts", ".tsx", ".mts", ".cts"} -> parseTypeScript(lines)
          [] ext = ".go" -> parseGo(lines)
          [] ext = ".rs" -> parseRust(lines)
          [] ext = ".java" -> parseJava(lines)
          [] ext \in {".c", ".h", ".cpp", ".hpp", ".cc", ".cxx"} ->
                parseCCpp(lines)
          [] ext = ".cs" -> parseCSharp(lines)
          [] ext = ".php" -> parsePHP(lines)
          [] ext = ".rb" -> parseRuby(lines)
          [] ext = ".swift" -> parseSwift(lines)
          [] ext \in {".kt", ".kts"} -> parseKotlin(lines)
          [] ext \in {".scala", ".sc"} -> parseScala(lines)
          [] ext = ".lua" -> parseLua(lines)
          [] ext \in {".pl", ".pm"} -> parsePerl(lines)
          [] ext \in {".sh", ".bash", ".zsh"} -> parseBash(lines)
          [] OTHER -> <<>>

----------------------------------------------------------------------------
(* NESTER.                                                                 *)

\* The comparator without its tie-break on the larger range.
CompareElements_StartOnly(a, b) == a.startLine - b.startLine

\* The comparator of nestElements' sort: by start line, then the larger
\* range first.
CompareElements(a, b) ==
    IF a.startLine # b.startLine THEN a.startLine - b.startLine
    ELSE (b.endLine - b.startLine) - (a.endLine - a.startLine)

RECURSIVE InsertElement(_, _)
\* el goes after every element that does not compare greater (the sort is
\* stable).
InsertElement(el, sorted) ==
    IF sorted = <<>> THEN <<el>>
    ELSE IF CompareElements(Head(sorted), el) <= 0
    THEN <<Head(sorted)>> \o InsertElement(el, Tail(sorted))
    ELSE <<el>> \o sorted

RECURSIVE SortElements(_)
\* [...elements].sort(comparator)
SortElements(elements) ==
    IF elements = <<>> THEN <<>>
    ELSE InsertElement(elements[Len(elements)],
                       SortElements(SubSeq(elements, 1, Len(elements) - 1)))

\* The test without its `el.endLine <= parent.endLine` half.
Within_StartOnly(el, parent) == el.startLine >= parent.startLine

\* The test of the `while (stack.length > 0)` loop: el lies within parent.
Within(el, parent) ==
    el.startLine >= parent.startLine /\ el.endLine <= parent.endLine

RECURSIVE PopStack(_, _, _)
\* The stack (indices into sorted, top last) after the pops for element k.
PopStack(sorted, stack, k) ==
    IF stack = <<>> \/ Within(sorted[k], sorted[stack[Len(stack)]]) THEN stack
    ELSE PopStack(sorted, SubSeq(stack, 1, Len(stack) - 1), k)

RECURSIVE NestWalk(_, _, _, _)
\* The `for (const el of sorted)` loop: parent[k] is the index of the node
\* element k was pushed under, 0 for a root.
NestWalk(sorted, k, stack, parent) ==
    IF k > Len(sorted) THEN parent
    ELSE LET popped == PopStack(sorted, stack, k)
             up == IF popped = <<>> THEN 0 ELSE popped[Len(popped)]
         IN  NestWalk(sorted, k + 1, Append(popped, k), Append(parent, up))

RECURSIVE BuildNodes(_, _, _, _)
\* The nodes pushed under node p (the roots for p = 0), from index k on, in
\* push order, each with its own children.
BuildNodes(sorted, parent, p, k) ==
    IF k > Len(sorted) THEN <<>>
    ELSE IF parent[k] = p
    THEN <<[type |-> sorted[k].type, label |-> sorted[k].label,
            startLine |-> sorted[k].startLine, endLine |-> sorted[k].endLine,
            size |-> sorted[k].size,
            children |-> BuildNodes(sorted, parent, k, k + 1)]>>
         \o BuildNodes(sorted, parent, p, k + 1)
    ELSE BuildNodes(sorted, parent, p, k + 1)

\* nestElements whose loop stops one element short of the end of `sorted`.
nestElements_Short(elements) ==
    IF elements = <<>> THEN <<>>
    ELSE BuildNodes(SubSeq(SortElements(elements), 1, Len(elements) - 1),
                    NestWalk(SubSeq(SortElements(elements), 1,
                                    Len(elements) - 1), 1, <<>>, <<>>),
                    0, 1)

\* nestElements(elements): the forest.
nestElements(elements) ==
    IF elements = <<>> THEN <<>>
    ELSE LET sorted == SortElements(elements)
         IN  BuildNodes(sorted, NestWalk(sorted, 1, <<>>, <<>>), 0, 1)

RECURSIVE FlattenForest(_)
\* Every node of a forest, parents before children.
FlattenForest(forest) ==
    IF forest = <<>> THEN <<>>
    ELSE <<Head(forest)>> \o FlattenForest(Head(forest).children)
         \o FlattenForest(Tail(forest))

----------------------------------------------------------------------------
(* CODE INDEX.  The box-drawing connectors are single lexemes.             *)

TEE == "|-- "
ELBOW == "L-- "
PIPE == "|   "
BLANK4 == "    "
\* path.basename(root)
RootName == "root"

\* `OL: ${a}-${b}`
OlRange(a, b) == <<"OL: ", ToString(a), "-", ToString(b)>>
\* `ML: ${a}-${b}`
MlRange(a, b) == <<"ML: ", ToString(a), "-", ToString(b)>>
\* `[${olRange} | ${mlRange} | ${sizeStr}]`
Annotation(olRange, mlRange, sizeStr) ==
    <<LB>> \o olRange \o <<" | ">> \o mlRange \o <<" | ", sizeStr, RB>>
\* `(Content omitted - file size: ${sizeStr})`
OmittedLine(sizeStr) == <<OMITTED_PREFIX, " - file size: ", sizeStr, ")">>

RECURSIVE renderCodeElements_LongEnd(_, _, _)
\* renderCodeElements with `mlEnd = mlOffset + el.endLine`.
renderCodeElements_LongEnd(elements, prefix, mlOffset) ==
    IF elements = <<>> THEN <<>>
    ELSE LET el == Head(elements)
             isLast == Len(elements) = 1
             connector == IF isLast THEN ELBOW ELSE TEE
             childPrefix == prefix \o <<IF isLast THEN BLANK4 ELSE PIPE>>
             mlStart == mlOffset + el.startLine - 1
             mlEnd == mlOffset + el.endLine
         IN  prefix \o <<connector, el.label, SP>>
             \o Annotation(OlRange(el.startLine, el.endLine),
                           MlRange(mlStart, mlEnd), formatBytes(el.size))
             \o <<NL>>
             \o (IF el.children # <<>>
                 THEN renderCodeElements_LongEnd(el.children, childPrefix,
                                                 mlOffset)
                 ELSE <<>>)
             \o renderCodeElements_LongEnd(Tail(elements), prefix, mlOffset)

RECURSIVE renderCodeElements(_, _, _)
\* renderCodeElements(elements, prefix, mlOffset): the lines it adds to tree.
renderCodeElements(elements, prefix, mlOffset) ==
    IF elements = <<>> THEN <<>>
    ELSE LET el == Head(elements)
             isLast == Len(elements) = 1
             connector == IF isLast THEN ELBOW ELSE TEE
             childPrefix == prefix \o <<IF isLast THEN BLANK4 ELSE PIPE>>
             mlStart == mlOffset + el.startLine - 1
             mlEnd == mlOffset + el.endLine - 1
         IN  prefix \o <<connector, el.label, SP>>
             \o Annotation(OlRange(el.startLine, el.endLine),
                           MlRange(mlStart, mlEnd), formatBytes(el.size))
             \o <<NL>>
             \o (IF el.children # <<>>
                 THEN renderCodeElements(el.children, childPrefix, mlOffset)
                 ELSE <<>>)
             \o renderCodeElements(Tail(elements), prefix, mlOffset)

RECURSIVE KeysOf(_, _)
\* Object.keys(level): the first parts of the entries, each once, in the
\* order of first insertion.
KeysOf(entries, seen) ==
    IF entries = <<>> THEN <<>>
    ELSE IF Head(entries).parts[1] \in seen THEN KeysOf(Tail(entries), seen)
    ELSE <<Head(entries).parts[1]>>
         \o KeysOf(Tail(entries), seen \cup {Head(entries).parts[1]})

RECURSIVE Under(_, _)
\* The entries below the directory `key`, with the key taken off.
Under(entries, key) ==
    IF entries = <<>> THEN <<>>
    ELSE (IF Head(entries).parts[1] = key /\ Len(Head(entries).parts) > 1
          THEN <<[parts |-> Tail(Head(entries).parts),
                  file |-> Head(entries).file]>>
          ELSE <<>>) \o Under(Tail(entries), key)

\* level[key].__file: the last file stored under `key` at this level.
FileAt(entries, key) ==
    LET at == {i \in 1..Len(entries) : entries[i].parts = <<key>>}
    IN  entries[CHOOSE i \in at : \A j \in at : j <= i].file

IsFileKey(entries, key) ==
    \E i \in 1..Len(entries) : entries[i].parts = <<key>>

RECURSIVE renderTree(_, _, _, _, _)
\* renderTree(level, prefix), from the k-th key of the level on.
renderTree(entries, prefix, k, skipSet, noParse) ==
    LET keys == KeysOf(entries, {})
    IN  IF k > Len(keys) THEN <<>>
        ELSE
          LET key == keys[k]
              isLast == k = Len(keys)
              connector == IF isLast THEN ELBOW ELSE TEE
              childPrefix == prefix \o <<IF isLast THEN BLANK4 ELSE PIPE>>
              f == FileAt(entries, key)
              isSkipped == f.relativePath \in skipSet
          IN  (IF IsFileKey(entries, key)
               THEN prefix \o <<connector>> \o key \o <<SP>>
                    \o Annotation(OlRange(1, f.lineCount),
                                  MlRange(f.mlStart, f.mlEnd), f.formattedSize)
                    \o <<NL>>
                    \o (IF isSkipped
                        THEN childPrefix \o OmittedLine(f.formattedSize)
                             \o <<NL>>
                        ELSE IF ~noParse /\ f.codeElements # <<>>
                        THEN renderCodeElements(f.codeElements, childPrefix,
                                                f.mlStart)
                        ELSE <<>>)
               ELSE prefix \o <<connector>> \o key \o <<SLASH, NL>>
                    \o renderTree(Under(entries, key), childPrefix, 1,
                                  skipSet, noParse))
              \o renderTree(entries, prefix, k + 1, skipSet, noParse)

\* The entries of the root level: file.relativePath.split(path.sep).
TreeEntries(filesWithMeta) ==
    [i \in 1..Len(filesWithMeta) |->
        [parts |-> Split(filesWithMeta[i].relativePath, SLASH),
         file |-> filesWithMeta[i]]]

\* generateCodeIndex(filesWithMeta, root, skipContentSet, noParse)
generateCodeIndex(filesWithMeta, root, skipSet, noParse) ==
    <<root, SLASH, NL>>
    \o renderTree(TreeEntries(filesWithMeta), <<>>, 1, skipSet, noParse)

----------------------------------------------------------------------------
(* MAIN: the state of one run.                                             *)

VARIABLES
    argv,               \* the flags: header, parse, llmsTxt
    skipContentSet,     \* the relative paths matched by --skip-content
    disk,               \* relative path -> the file's text on disk
    unreadable,         \* the relative paths whose read throws
    includedFiles,      \* the fileObj list, in the walker's sorted order
    codeIndex,          \* the code index text
    codeIndexLineCount,
    totalHeaderLines,
    output,             \* the text written to the output file
    files,              \* recreateFromFile: the (path, content) list
    recreate,           \* recreateFromFile: dryRun, overwrite, the output
                        \* directory as the run found it, and whether a
                        \* file system call threw
    target,             \* recreateFromFile: the output directory afterwards
    flat,               \* nestElements: the flat element list it is given
    nested,             \* nestElements: the forest it returns
    block,              \* a block-end finder: the lines and startLine it
                        \* is given, the end it returns
    pc                  \* the place in main() / recreateFromFile()

vars == <<argv, skipContentSet, disk, unreadable, includedFiles, codeIndex,
          codeIndexLineCount, totalHeaderLines, output, files, recreate,
          target, flat, nested, block, pc>>

\* No block-end finder has been called.
NoBlock == [lines |-> <<>>, startLine |-> 0, end |-> 0]

\* One lexeme per line of prompt text: the prompts end with a newline and
\* hold 8 and 5 lines, their 2nd and 4th blank.
PromptLine == "prompt text"
DEFAULT_SYSTEM_PROMPT ==
    <<PromptLine, NL, NL, PromptLine, NL, NL, PromptLine, NL, PromptLine, NL,
      PromptLine, NL, PromptLine, NL>>
LLMS_TXT_SYSTEM_PROMPT ==
    <<PromptLine, NL, NL, PromptLine, NL, NL, PromptLine, NL>>

systemPrompt ==
    IF argv.llmsTxt THEN LLMS_TXT_SYSTEM_PROMPT ELSE DEFAULT_SYSTEM_PROMPT

\* An error text that runs over two lines.
ReadErrorText_TwoLines ==
    <<"... (error reading file: ", "EACCES", NL, ") ...">>

\* The text of a caught read error: `... (error reading file: ${e.message}) ...`
ReadErrorText == <<"... (error reading file: ", "EACCES", ") ...">>

\* content.split("\n").length, less the empty last part of a text that ends
\* with a newline.
CountLines(content) ==
    IF EndsWith(content, NL) THEN Len(Split(content, NL)) - 1
    ELSE Len(Split(content, NL))

\* The read loop with `lineCount = 1` for a file whose content is omitted.
ReadOne_OneLine(fileObj, skipSet, parse) ==
    IF fileObj.relativePath \in skipSet
    THEN [fileObj EXCEPT !.content = <<>>, !.lineCount = 1,
                         !.codeElements = <<>>]
    ELSE IF fileObj.relativePath \in unreadable
    THEN [fileObj EXCEPT !.content = ReadErrorText, !.lineCount = 1,
                         !.codeElements = <<>>]
    ELSE LET content == disk[fileObj.relativePath]
         IN  [fileObj EXCEPT
                !.content = content,
                !.lineCount = CountLines(content),
                !.codeElements =
                    IF parse
                    THEN nestElements(
                           parseCodeStructure(fileObj.relativePath, content))
                    ELSE <<>>]

\* The read loop without its `if (argv.parse)` test.
ReadOne_AlwaysParse(fileObj, skipSet, parse) ==
    IF fileObj.relativePath \in skipSet
    THEN [fileObj EXCEPT !.content = <<>>, !.lineCount = 0,
                         !.codeElements = <<>>]
    ELSE IF fileObj.relativePath \in unreadable
    THEN [fileObj EXCEPT !.content = ReadErrorText, !.lineCount = 1,
                         !.codeElements = <<>>]
    ELSE LET content == disk[fileObj.relativePath]
         IN  [fileObj EXCEPT
                !.content = content,
                !.lineCount = CountLines(content),
                !.codeElements =
                    nestElements(
                       parseCodeStructure(fileObj.relativePath, content))]

\* One turn of the read loop of main(): the fileObj with its content,
\* lineCount and codeElements set.
ReadOne(fileObj, skipSet, parse) ==
    IF fileObj.relativePath \in skipSet
    THEN [fileObj EXCEPT !.content = <<>>, !.lineCount = 0,
                         !.codeElements = <<>>]
    ELSE IF fileObj.relativePath \in unreadable
    THEN [fileObj EXCEPT !.content = ReadErrorText, !.lineCount = 1,
                         !.codeElements = <<>>]
    ELSE LET content == disk[fileObj.relativePath]
         IN  [fileObj EXCEPT
                !.content = content,
                !.lineCount = CountLines(content),
                !.codeElements =
                    IF parse
                    THEN nestElements(
                           parseCodeStructure(fileObj.relativePath, content))
                    ELSE <<>>]

RECURSIVE TempMlWalk(_, _, _, _)
\* Step 1: the temporary ML values, from file k on with the cursor tempMl.
TempMlWalk(fs, skipSet, k, tempMl) ==
    IF k > Len(fs) THEN fs
    ELSE IF fs[k].relativePath \in skipSet
    THEN TempMlWalk([fs EXCEPT ![k].mlStart = tempMl, ![k].mlEnd = tempMl + 1],
                    skipSet, k + 1, tempMl + 4 + 1)
    ELSE TempMlWalk([fs EXCEPT ![k].mlStart = tempMl,
                               ![k].mlEnd = tempMl + fs[k].lineCount - 1],
                    skipSet, k + 1, tempMl + 4 + fs[k].lineCount)

\* Step 3 without the count of the blank line that follows "</code_index>".
HeaderLineCount_NoBlank(header, prompt, indexLines) ==
    IF header
    THEN Len(Split(prompt, NL)) + 1 + indexLines + 1 + 1
    ELSE 1

\* Step 3: the number of lines before the first file header.
HeaderLineCount(header, prompt, indexLines) ==
    IF header
    THEN Len(Split(prompt, NL)) + 1 + indexLines + 1 + 1 + 1
    ELSE 1

RECURSIVE MlWalk_LongEnd(_, _, _, _)
\* Step 4 with `mlEnd = mlStart + lineCount` for a file whose content is
\* kept.
MlWalk_LongEnd(fs, skipSet, k, currentMl) ==
    IF k > Len(fs) THEN fs
    ELSE IF fs[k].relativePath \in skipSet
    THEN MlWalk_LongEnd([fs EXCEPT ![k].mlStart = currentMl + 2,
                                   ![k].mlEnd = currentMl + 2],
                        skipSet, k + 1, currentMl + 2 + 1 + 2)
    ELSE MlWalk_LongEnd([fs EXCEPT ![k].mlStart = currentMl + 2,
                                   ![k].mlEnd = currentMl + 2 + fs[k].lineCount],
                        skipSet, k + 1, currentMl + 2 + fs[k].lineCount + 2)

RECURSIVE MlWalk(_, _, _, _)
\* Step 4: the real ML values, from file k on with the cursor currentMl.
MlWalk(fs, skipSet, k, currentMl) ==
    IF k > Len(fs) THEN fs
    ELSE IF fs[k].relativePath \in skipSet
    THEN MlWalk([fs EXCEPT ![k].mlStart = currentMl + 2,
                           ![k].mlEnd = currentMl + 2],
                skipSet, k + 1, currentMl + 2 + 1 + 2)
    ELSE MlWalk([fs EXCEPT ![k].mlStart = currentMl + 2,
                           ![k].mlEnd = currentMl + 2 + fs[k].lineCount - 1],
                skipSet, k + 1, currentMl + 2 + fs[k].lineCount + 2)

\* Step 4 with a cursor that starts from the table's present values.
RecalculateMlOffsets_Stale(fs, skipSet, headerLines) ==
    MlWalk(fs, skipSet, 1, headerLines + fs[1].mlStart)

\* Step 4 with the cursor begun on the last line of the header:
\* `currentMl = totalHeaderLines`.
RecalculateMlOffsets_OnHeader(fs, skipSet, headerLines) ==
    MlWalk(fs, skipSet, 1, headerLines)

\* Step 4 as main() starts it: the cursor begins right after the header.
RecalculateMlOffsets(fs, skipSet, headerLines) ==
    MlWalk(fs, skipSet, 1, headerLines + 1)

\* fileObj.relativePath.replace(/\\/g, "/")
ReplaceBackslashes(relativePath) ==
    [i \in 1..Len(relativePath) |->
        IF relativePath[i] = BACKSLASH THEN SLASH ELSE relativePath[i]]

\* The writes of one turn without the blank line after the closing fence.
FileBlock_NoBlank(fileObj, skipSet) ==
    <<HDR, SP>> \o ReplaceBackslashes(fileObj.relativePath) \o <<SP>>
    \o Annotation(OlRange(1, fileObj.lineCount),
                  MlRange(fileObj.mlStart, fileObj.mlEnd),
                  fileObj.formattedSize)
    \o <<NL>>
    \o Fence \o <<NL>>
    \o (IF fileObj.relativePath \in skipSet
        THEN OmittedLine(fileObj.formattedSize) \o <<NL>>
        ELSE fileObj.content
             \o (IF ~EndsWith(fileObj.content, NL) THEN <<NL>> ELSE <<>>))
    \o Fence \o <<NL>>

\* The writes of one turn of the output loop: header line, fence, body,
\* fence and blank line.
FileBlock(fileObj, skipSet) ==
    <<HDR, SP>> \o ReplaceBackslashes(fileObj.relativePath) \o <<SP>>
    \o Annotation(OlRange(1, fileObj.lineCount),
                  MlRange(fileObj.mlStart, fileObj.mlEnd),
                  fileObj.formattedSize)
    \o <<NL>>
    \o Fence \o <<NL>>
    \o (IF fileObj.relativePath \in skipSet
        THEN OmittedLine(fileObj.formattedSize) \o <<NL>>
        ELSE fileObj.content
             \o (IF ~EndsWith(fileObj.content, NL) THEN <<NL>> ELSE <<>>))
    \o Fence \o <<NL, NL>>

RECURSIVE FileBlocks(_, _)
FileBlocks(fs, skipSet) ==
    IF fs = <<>> THEN <<>>
    ELSE FileBlock(Head(fs), skipSet) \o FileBlocks(Tail(fs), skipSet)

\* The writes without the `if (argv.header)` test.
OutputText_Headed(fs, skipSet, header, prompt, index) ==
    prompt \o <<NL>>
    \o <<"<code_index>", NL>> \o index \o <<"</code_index>", NL, NL>>
    \o <<"<merged_code>", NL>>
    \o FileBlocks(fs, skipSet)
    \o <<"</merged_code>", NL>>

\* Everything main() writes to the output stream.
OutputText(fs, skipSet, header, prompt, index) ==
    (IF header
     THEN prompt \o <<NL>>
          \o <<"<code_index>", NL>> \o index \o <<"</code_index>", NL, NL>>
          \o <<"<merged_code>", NL>>
     ELSE <<"<merged_code>", NL>>)
    \o FileBlocks(fs, skipSet)
    \o <<"</merged_code>", NL>>

----------------------------------------------------------------------------
(* RECREATE: the two regular expressions of recreateFromFile, as the       *)
(* backtracking matcher runs them on the text s (places are 1-based).      *)

\* The first place e >= b with s[e] = "\n", 0 when there is none.
NextNewline(s, b) ==
    IF \E e \in b..Len(s) : s[e] = NL
    THEN CHOOSE e \in b..Len(s) :
            s[e] = NL /\ \A d \in b..(e - 1) : s[d] # NL
    ELSE 0

\* "````" stands at place i.
FenceAt(s, i) ==
    i >= 1 /\ i + 3 <= Len(s) /\ \A d \in 0..3 : s[i + d] = BT

\* The length of the run of \s characters that starts at place a.
SpaceRun(s, a) ==
    IF \E e \in a..Len(s) : ~IsSpace(s[e])
    THEN (CHOOSE e \in a..Len(s) :
            ~IsSpace(s[e]) /\ \A d \in a..(e - 1) : IsSpace(s[d])) - a
    ELSE Len(s) + 1 - a

\* `\n````\n([\s\S]*?)\n```` ` from the newline at place e: the place of the
\* newline that ends the lazily matched content, 0 when the match fails.
BodyEnd(s, e) ==
    IF /\ e >= 1 /\ e + 5 <= Len(s)
       /\ s[e] = NL /\ FenceAt(s, e + 1) /\ s[e + 5] = NL
       /\ \E q \in (e + 6)..Len(s) : s[q] = NL /\ FenceAt(s, q + 1)
    THEN CHOOSE q \in (e + 6)..Len(s) :
            /\ s[q] = NL /\ FenceAt(s, q + 1)
            /\ \A d \in (e + 6)..(q - 1) : ~(s[d] = NL /\ FenceAt(s, d + 1))
    ELSE 0

\* `\[.*?\]` from place b, then the body: "[" at b, "]" as the last
\* character of b's line.  The place of the newline that ends that line, 0
\* when the match fails.
BracketEnd(s, b) ==
    LET e == NextNewline(s, b)
    IN  IF /\ b >= 1 /\ b <= Len(s) /\ s[b] = LB
           /\ e > b + 1 /\ s[e - 1] = RB
           /\ BodyEnd(s, e) # 0
        THEN e ELSE 0

\* `(.+?)\s*\[.*?\]...` with the path at ps..(ps + pl - 1): the path holds
\* no newline and some blank run after it (\s* gives back) leads to "[".
PathOK(s, ps, pl) ==
    /\ ps + pl - 1 <= Len(s)
    /\ \A d \in ps..(ps + pl - 1) : s[d] # NL
    /\ \E w2 \in 0..SpaceRun(s, ps + pl) : BracketEnd(s, ps + pl + w2) # 0

\* The place where the line of place a ends (the place after the text when
\* no newline follows).
Eol(s, a) == IF NextNewline(s, a) = 0 THEN Len(s) + 1 ELSE NextNewline(s, a)

\* The least member of a set of places, 0 for the empty set.
Least(S) == IF S = {} THEN 0 ELSE CHOOSE x \in S : \A y \in S : x <= y

NoMatch == [ok |-> FALSE, path |-> <<>>, content |-> <<>>, next |-> 0]

\* The match whose path is at ps..(ps + pl - 1), whose header line ends
\* with the newline at place e and whose content ends before the newline at
\* place q: match[1], match[2] and the lastIndex after it.
MatchRecord(s, ps, pl, e, q) ==
    [ok |-> TRUE, path |-> SubSeq(s, ps, ps + pl - 1),
     content |-> SubSeq(s, e + 6, q - 1), next |-> q + 5]

MatchBody(s, ps, pl, e) == MatchRecord(s, ps, pl, e, BodyEnd(s, e))

\* The ways `\s*(.+?)` can match from place a: <<blanks skipped, length of
\* the path>>.
Tries(s, a) ==
    {t \in (0..SpaceRun(s, a)) \X (1..(Eol(s, a) - a)) :
        PathOK(s, a + t[1], t[2])}

\* The first \s* is greedy (the longest run first), the path lazy (the
\* shortest first).
Best(tries) ==
    CHOOSE t \in tries :
        \A u \in tries :
            \/ t[1] > u[1]
            \/ t[1] = u[1] /\ t[2] <= u[2]

\* The place of the "[" that the second \s* leads to from place x.
BracketAt(s, x) ==
    CHOOSE b \in x..(x + SpaceRun(s, x)) : BracketEnd(s, b) # 0

MatchPath(s, ps, pl) ==
    MatchBody(s, ps, pl, BracketEnd(s, BracketAt(s, ps + pl)))

MatchTries(s, a, tries) ==
    IF tries = {} THEN NoMatch
    ELSE MatchPath(s, a + Best(tries)[1], Best(tries)[2])

\* The current pattern at place p:
\*   /# FILE:\s*(.+?)\s*\[.*?\]\n````\n([\s\S]*?)\n````/
\* A record [ok, path, content, next].
MatchCurrentAt(s, p) ==
    IF p <= Len(s) /\ s[p] = HDR
    THEN MatchTries(s, p + 1, Tries(s, p + 1))
    ELSE NoMatch

\* The lengths the path `(.+?)` can have from place ps up to a backtick
\* that the body follows.
LegacyLens(s, ps, eol) ==
    {pl \in 1..(eol - ps + 1) :
        /\ ps + pl <= Len(s)
        /\ \A d \in ps..(ps + pl - 1) : s[d] # NL
        /\ s[ps + pl] = BT
        /\ BodyEnd(s, ps + pl + 1) # 0}

MatchLegacyLens(s, ps, pl) ==
    IF pl = 0 THEN NoMatch ELSE MatchBody(s, ps, pl, ps + pl + 1)

\* The legacy pattern at place p:
\*   /### \*\*FILE:\*\*\s*`(.+?)`\n````\n([\s\S]*?)\n````/
\* The path starts after the blanks and the backtick.
MatchLegacyFrom(s, p, ps) ==
    IF /\ p <= Len(s) /\ s[p] = LEGACY_HDR
       /\ ps - 1 <= Len(s) /\ s[ps - 1] = BT
    THEN MatchLegacyLens(s, ps, Least(LegacyLens(s, ps, Eol(s, p + 1))))
    ELSE NoMatch

MatchLegacyAt(s, p) == MatchLegacyFrom(s, p, p + 1 + SpaceRun(s, p + 1) + 1)

MatchAt(s, p, legacy) ==
    IF legacy THEN MatchLegacyAt(s, p) ELSE MatchCurrentAt(s, p)

\* fileContent.trim().startsWith("(Content omitted")
IsOmittedBody(fileContent) == LineHead(Trim(fileContent)) = OMITTED_PREFIX

\* The places from lastIndex `from` on where the pattern matches.
Hits(s, from, legacy) ==
    {p \in from..Len(s) :
        /\ s[p] = (IF legacy THEN LEGACY_HDR ELSE HDR)
        /\ MatchAt(s, p, legacy).ok}

RECURSIVE ExecAll(_, _, _)
\* One turn of the loop on the match m: the file it pushes (none for
\* omitted content), then the turns from m's lastIndex on.
ExecStep(s, m, legacy) ==
    (IF IsOmittedBody(m.content) THEN <<>>
     ELSE <<[path |-> Trim(m.path), content |-> m.content]>>)
    \o ExecAll(s, m.next, legacy)

ExecAt(s, p, legacy) ==
    IF p = 0 THEN <<>> ELSE ExecStep(s, MatchAt(s, p, legacy), legacy)

\* The `while ((match = regex.exec(content)) !== null)` loop from lastIndex
\* `from` on: the files it pushes.
ExecAll(s, from, legacy) == ExecAt(s, Least(Hits(s, from, legacy)), legacy)

\* `if (files.length === 0)`: the legacy pattern when the current one gave
\* nothing.
OrLegacy(s, current) ==
    IF current # <<>> THEN current ELSE ExecAll(s, 1, TRUE)

\* The files recreateFromFile parses out of the input text.
ParseMerged(s) == OrLegacy(s, ExecAll(s, 1, FALSE))

----------------------------------------------------------------------------
(* RECREATE: the write loop.  A place below the output directory is the    *)
(* record [up, segs]: `up` levels above the directory, then the segments.  *)

RECURSIVE NormalizeSegments(_, _, _)
\* path.join / path.normalize on the segments: "" and "." fall out, ".."
\* takes the segment before it (or climbs one level).
NormalizeSegments(parts, up, segs) ==
    IF parts = <<>> THEN [up |-> up, segs |-> segs]
    ELSE IF Head(parts) \in {<<>>, <<".">>}
    THEN NormalizeSegments(Tail(parts), up, segs)
    ELSE IF Head(parts) = <<"..">>
    THEN IF segs = <<>> THEN NormalizeSegments(Tail(parts), up + 1, segs)
         ELSE NormalizeSegments(Tail(parts), up,
                                SubSeq(segs, 1, Len(segs) - 1))
    ELSE NormalizeSegments(Tail(parts), up, Append(segs, Head(parts)))

\* path.join(resolvedOutputDir, file.path)
fullPath(filePath) == NormalizeSegments(Split(filePath, SLASH), 0, <<>>)

\* place a is a proper ancestor directory of place b.
IsAncestor(a, b) ==
    /\ a.up = b.up
    /\ Len(a.segs) < Len(b.segs)
    /\ SubSeq(b.segs, 1, Len(a.segs)) = a.segs

\* An existence test that never finds anything.
existsSync_Never(dir, place) == FALSE

\* fs.existsSync(place): a file, or a directory some file lies in.
existsSync(dir, place) ==
    \/ place \in DOMAIN dir
    \/ \E f \in DOMAIN dir : IsAncestor(place, f)
    \/ place.segs = <<>>

\* mkdirSync(dirname, {recursive}) or writeFileSync throws: a file stands
\* where a directory is needed, or a directory where the file is to go.
WriteThrows(dir, place) ==
    \/ \E f \in DOMAIN dir : IsAncestor(f, place)
    \/ \E f \in DOMAIN dir : IsAncestor(place, f)
    \/ place.segs = <<>>

RECURSIVE WriteLoop(_, _, _, _, _)
\* The loop without its `if (!dryRun)` guard.
WriteLoop_Wet(fs, k, dir, dryRun, overwrite) ==
    IF k > Len(fs) THEN [dir |-> dir, threw |-> FALSE]
    ELSE LET place == fullPath(fs[k].path)
         IN  IF existsSync(dir, place) /\ ~overwrite
             THEN WriteLoop(fs, k + 1, dir, dryRun, overwrite)
             ELSE IF WriteThrows(dir, place)
             THEN [dir |-> dir, threw |-> TRUE]
             ELSE WriteLoop(fs, k + 1,
                            [q \in DOMAIN dir \cup {place} |->
                                IF q = place THEN fs[k].content ELSE dir[q]],
                            dryRun, overwrite)

\* `for (const file of files)` from file k on: the directory afterwards and
\* whether a call threw (the run ends there).
WriteLoop(fs, k, dir, dryRun, overwrite) ==
    IF k > Len(fs) THEN [dir |-> dir, threw |-> FALSE]
    ELSE LET place == fullPath(fs[k].path)
         IN  IF dryRun THEN WriteLoop(fs, k + 1, dir, dryRun, overwrite)
             ELSE IF existsSync(dir, place) /\ ~overwrite
             THEN WriteLoop(fs, k + 1, dir, dryRun, overwrite)
             ELSE IF WriteThrows(dir, place)
             THEN [dir |-> dir, threw |-> TRUE]
             ELSE WriteLoop(fs, k + 1,
                            [q \in DOMAIN dir \cup {place} |->
                                IF q = place THEN fs[k].content ELSE dir[q]],
                            dryRun, overwrite)

----------------------------------------------------------------------------
(* INPUTS.                                                                 *)

\* The most files of one run, the most lines of one file's text, and the
\* most body lines of a scanned block.
MaxFiles == 2
MaxLines == 2
MaxBody == 5

RECURSIVE Join(_, _)
\* lines.join(sep)
Join(lines, sep) ==
    IF lines = <<>> THEN <<>>
    ELSE IF Len(lines) = 1 THEN lines[1]
    ELSE lines[1] \o <<sep>> \o Join(Tail(lines), sep)

\* The texts of 1..n lines drawn from `alphabet`, with and without a final
\* newline.
Texts(alphabet, n) ==
    {Join(ls, NL) \o t :
        ls \in UNION {[1..k -> alphabet] : k \in 1..n}, t \in {<<>>, <<NL>>}}

RECURSIVE Pick(_, _, _)
\* The members of the sequence u whose index is in S, in u's order.
Pick(u, S, i) ==
    IF i > Len(u) THEN <<>>
    ELSE (IF i \in S THEN <<u[i]>> ELSE <<>>) \o Pick(u, S, i + 1)

\* The file lists of at most n members of the (sorted) universe u.
FileLists(u, n) ==
    {Pick(u, S, 1) : S \in {T \in SUBSET (1..Len(u)) : Cardinality(T) <= n}}

Range(f) == {f[i] : i \in DOMAIN f}

\* A fileObj as the walker leaves it (the fields main() sets later are 0 or
\* empty).
FileObj(relativePath, size) ==
    [relativePath |-> relativePath, size |-> size,
     formattedSize |-> formatBytes(size), content |-> <<>>, lineCount |-> 0,
     codeElements |-> <<>>, mlStart |-> 0, mlEnd |-> 0]

\* A file of a run: its path, its text on disk, and whether main() reads
\* it ("read"), omits its content ("skipped") or fails to read it
\* ("unreadable").
DiskFile(relativePath, text, status) ==
    [relativePath |-> relativePath, text |-> text, status |-> status]

\* What a file that is never read holds on disk.
UnreadText == <<"x", NL, "x", NL, "x", NL>>

\* The ways a file of path q can stand on disk, its text drawn from `texts`
\* when it is read.
DiskFiles(q, texts) ==
    {DiskFile(q, t, "read") : t \in texts}
    \cup {DiskFile(q, UnreadText, "skipped"),
          DiskFile(q, UnreadText, "unreadable")}

\* The state when main() has walked the directory: one of the runs `cases`
\* (each the sorted sequence of its files), the flags from `flags`.
InitOf(cases, flags) ==
    /\ argv \in flags
    /\ \E c \in cases :
         /\ skipContentSet =
               {c[i].relativePath : i \in {j \in 1..Len(c) : c[j].status = "skipped"}}
         /\ unreadable =
               {c[i].relativePath : i \in {j \in 1..Len(c) : c[j].status = "unreadable"}}
         /\ disk = [q \in {c[i].relativePath : i \in 1..Len(c)} |->
                      (CHOOSE f \in Range(c) : f.relativePath = q).text]
         /\ includedFiles =
               [i \in 1..Len(c) |->
                   FileObj(c[i].relativePath, ByteLength(c[i].text))]
    /\ codeIndex = <<>>
    /\ codeIndexLineCount = 0
    /\ totalHeaderLines = 0
    /\ output = <<>>
    /\ files = <<>>
    /\ recreate = [dryRun |-> FALSE, overwrite |-> FALSE, existing |-> <<>>,
                   threw |-> FALSE]
    /\ target = <<>>
    /\ flat = <<>>
    /\ nested = <<>>
    /\ block = NoBlock
    /\ pc = "start"

----------------------------------------------------------------------------
(* ACTIONS of main().                                                      *)

\* `if (includedFiles.length === 0) { ...; process.exit(1); }`
NoFiles ==
    /\ pc = "start"
    /\ Len(includedFiles) = 0
    /\ pc' = "no_files_to_include"
    /\ UNCHANGED <<flat, nested, block>>
    /\ UNCHANGED <<argv, skipContentSet, disk, unreadable, includedFiles,
                   codeIndex, codeIndexLineCount, totalHeaderLines, output,
                   files, recreate, target>>

\* The read loop: content, lineCount and codeElements of every file.
ReadFiles ==
    /\ pc = "start"
    /\ Len(includedFiles) > 0
    /\ includedFiles' =
          [i \in 1..Len(includedFiles) |->
              ReadOne(includedFiles[i], skipContentSet, argv.parse)]
    /\ pc' = "read"
    /\ UNCHANGED <<flat, nested, block>>
    /\ UNCHANGED <<argv, skipContentSet, disk, unreadable, codeIndex,
                   codeIndexLineCount, totalHeaderLines, output, files,
                   recreate, target>>

\* Steps 1 to 3: the temporary ML values, the provisional code index and its
\* line count, the header line count.
ProvisionalPass ==
    /\ pc = "read"
    /\ LET fs == TempMlWalk(includedFiles, skipContentSet, 1, 1)
           index == generateCodeIndex(fs, RootName, skipContentSet, ~argv.parse)
       IN  /\ includedFiles' = fs
           /\ codeIndex' = index
           /\ codeIndexLineCount' = CountLines(index)
           /\ totalHeaderLines' =
                 HeaderLineCount(argv.header, systemPrompt, CountLines(index))
    /\ pc' = "provisional"
    /\ UNCHANGED <<flat, nested, block>>
    /\ UNCHANGED <<argv, skipContentSet, disk, unreadable, output, files,
                   recreate, target>>

\* Steps 4 and 5: the real ML values and the code index with them.
FinalPass ==
    /\ pc = "provisional"
    /\ LET fs == RecalculateMlOffsets(includedFiles, skipContentSet,
                                      totalHeaderLines)
       IN  /\ includedFiles' = fs
           /\ codeIndex' =
                 generateCodeIndex(fs, RootName, skipContentSet, ~argv.parse)
    /\ pc' = "resolved"
    /\ UNCHANGED <<flat, nested, block>>
    /\ UNCHANGED <<argv, skipContentSet, disk, unreadable, codeIndexLineCount,
                   totalHeaderLines, output, files, recreate, target>>

\* `if (argv.dryRun) { ...; return; }`: the index is printed, nothing written.
DryRun ==
    /\ pc = "resolved"
    /\ argv.dryRun
    /\ pc' = "done"
    /\ UNCHANGED <<flat, nested, block>>
    /\ UNCHANGED <<argv, skipContentSet, disk, unreadable, includedFiles,
                   codeIndex, codeIndexLineCount, totalHeaderLines, output,
                   files, recreate, target>>

\* The writes to the output stream.
WriteOutput ==
    /\ pc = "resolved"
    /\ ~argv.dryRun
    /\ output' = OutputText(includedFiles, skipContentSet, argv.header,
                            systemPrompt, codeIndex)
    /\ pc' = "written"
    /\ UNCHANGED <<flat, nested, block>>
    /\ UNCHANGED <<argv, skipContentSet, disk, unreadable, includedFiles,
                   codeIndex, codeIndexLineCount, totalHeaderLines, files,
                   recreate, target>>

----------------------------------------------------------------------------
(* ACTIONS of recreateFromFile(), run on the document main() wrote.        *)

\* The two exec loops; `process.exit(1)` when they find no file.
RecreateParse ==
    /\ pc \in {"written", "given"}
    /\ files' = ParseMerged(output)
    /\ pc' = IF files' = <<>> THEN "no_files_found" ELSE "parsed"
    /\ UNCHANGED <<flat, nested, block>>
    /\ UNCHANGED <<argv, skipContentSet, disk, unreadable, includedFiles,
                   codeIndex, codeIndexLineCount, totalHeaderLines, output,
                   recreate, target>>

\* What an earlier file of the output directory holds.
OldText == <<"old">>

\* The write loop, for each setting of the flags, into an output directory
\* that is empty or already holds the first file.
RecreateWrite ==
    /\ pc = "parsed"
    /\ \E dryRun \in BOOLEAN, overwrite \in BOOLEAN,
          existing \in {<<>>, [q \in {fullPath(files[1].path)} |-> OldText]} :
          LET run == WriteLoop(files, 1, existing, dryRun, overwrite)
          IN  /\ recreate' = [dryRun |-> dryRun, overwrite |-> overwrite,
                              existing |-> existing, threw |-> run.threw]
              /\ target' = run.dir
    /\ pc' = "recreated"
    /\ UNCHANGED <<flat, nested, block>>
    /\ UNCHANGED <<argv, skipContentSet, disk, unreadable, includedFiles,
                   codeIndex, codeIndexLineCount, totalHeaderLines, output,
                   files>>

----------------------------------------------------------------------------
(* THE RUNS.                                                               *)

\* Every run over one of `lists`, each file standing on disk in one of its
\* ways.
Cases(lists, texts) ==
    UNION {{c \in [1..Len(l) -> UNION {DiskFiles(l[i], texts) : i \in 1..Len(l)}] :
               \A i \in 1..Len(l) : c[i].relativePath = l[i]} : l \in lists}

\* A path with brackets and a path with a blank below a directory, in the
\* order the walker's sort leaves them.
PathUniverse ==
    << <<"a", LB, "1", RB, ".js">>,
       <<"my", SP, "dir", SLASH, "b", ".py">> >>

\* The lines of the files: a declaration, an empty line, a line of four
\* backticks.
LineTexts == {<<FnHead("f")>>, <<>>, Fence}

\* The flags: the prompt only shows with the header, and the dry run is
\* taken with the default flags.
Flags ==
    {f \in [header : BOOLEAN, parse : BOOLEAN, llmsTxt : BOOLEAN,
            dryRun : BOOLEAN] :
        /\ f.llmsTxt => f.header
        /\ f.dryRun => f.header /\ f.parse /\ ~f.llmsTxt}

Init ==
    InitOf(Cases(FileLists(PathUniverse, MaxFiles), Texts(LineTexts, MaxLines)),
           Flags)

Next ==
    \/ NoFiles
    \/ ReadFiles
    \/ ProvisionalPass
    \/ FinalPass
    \/ DryRun
    \/ WriteOutput
    \/ RecreateParse
    \/ RecreateWrite

Spec == Init /\ [][Next]_vars

----------------------------------------------------------------------------
(* THE SCANNED RUNS: one file of each language, holding a block of up to   *)
(* MaxBody body lines, alone or after a text file.                         *)

ScanExtensions ==
    {".py", ".js", ".ts", ".go", ".rs", ".java", ".c", ".cs", ".php", ".rb",
     ".swift", ".kt", ".scala", ".lua", ".pl", ".sh"}

\* How the language of the extension closes a block.
StyleOf(ext) ==
    CASE ext = ".py" -> "indent"
      [] ext \in {".rb", ".lua"} -> "end"
      [] ext = ".sh" -> "done"
      [] OTHER -> "brace"

Ind(d) == [i \in 1..d |-> SP]

HeadLine(h, style, d) ==
    Ind(d) \o <<h>>
    \o (IF style = "brace" \/ (style = "done" /\ h # LoopHead)
        THEN <<SP, LBRACE>> ELSE <<>>)

\* The closing line of the block of head h, none in an indented language.
Closer(h, style, d) ==
    CASE style = "indent" -> <<>>
      [] style = "end" -> <<Ind(d) \o <<EndKw>>>>
      [] style = "done" /\ h = LoopHead -> <<Ind(d) \o <<DoneKw>>>>
      [] OTHER -> <<Ind(d) \o <<RBRACE>>>>

\* The lines of a file: an optional outer block around an inner block of n
\* body lines, closed or running to the end of the file, with an optional
\* line after it.
ScanLines(outer, inner, style, n, closed, post) ==
    LET d == IF outer = "" THEN 0 ELSE 1
    IN  (IF outer = "" THEN <<>> ELSE <<HeadLine(outer, style, 0)>>)
        \o <<HeadLine(inner, style, d)>>
        \o [i \in 1..n |-> Ind(d + 1) \o <<"x">>]
        \o (IF closed THEN Closer(inner, style, d) ELSE <<>>)
        \o (IF closed /\ outer # "" THEN Closer(outer, style, 0) ELSE <<>>)
        \o (IF post THEN << <<"x">> >> ELSE <<>>)

ScanTexts(style) ==
    {Join(ScanLines(outer, inner, style, n, closed, post), NL) \o t :
        outer \in {"", ClassHead, FnHead("f")},
        inner \in {LoopHead, FnHead("test_a")},
        n \in 0..MaxBody, closed \in BOOLEAN, post \in BOOLEAN,
        t \in {<<>>, <<NL>>}}

PreludeFile == DiskFile(<<"a", ".txt">>, <<"x", NL, "x">>, "read")

\* The runs over the file m.<ext> holding text t.
ScanCasesOf(ext, t) ==
    {<<DiskFile(<<"m", ext>>, t, "read")>>,
     <<PreludeFile, DiskFile(<<"m", ext>>, t, "read")>>}

\* A shell script of two functions: the loop of the first closes on its own
\* line (`for ...; do x; done`), the loop of the second has the script's
\* only line that is just `done`.
StraddleText ==
    Join(<< <<BareHead("f"), SP, LBRACE>>,
            <<SP, LoopHead, SP, "x", SP, DoneKw>>,
            <<SP, "x">>,
            <<RBRACE>>,
            <<BareHead("init"), SP, LBRACE>>,
            <<SP, LoopHead>>,
            <<SP, SP, "x">>,
            <<SP, DoneKw>>,
            <<RBRACE>> >>, NL)

ScanCases ==
    UNION {UNION {ScanCasesOf(ext, t) : t \in ScanTexts(StyleOf(ext))} :
              ext \in ScanExtensions}
    \cup ScanCasesOf(".sh", StraddleText)

ScanFlags ==
    {[header |-> TRUE, parse |-> TRUE, llmsTxt |-> FALSE, dryRun |-> FALSE]}

InitScan == InitOf(ScanCases, ScanFlags)

\* One merge run, from the walk to the written document.
NextMerge ==
    \/ ReadFiles
    \/ ProvisionalPass
    \/ FinalPass
    \/ WriteOutput

SpecScan == InitScan /\ [][NextMerge]_vars

----------------------------------------------------------------------------
(* THE NESTER ALONE: nestElements on any flat list of up to MaxElements     *)
(* elements whose ranges lie in lines 1..MaxLine.                          *)

MaxElements == 3
MaxLine == 4

\* The k-th element of a flat list, of the range a..b.
\* The k-th element of a flat list: its kind, label and size are its own.
FlatKinds == <<"class", "fn", "loop", "test">>
FlatElement(k, a, b) ==
    [type |-> FlatKinds[((k - 1) % Len(FlatKinds)) + 1],
     label |-> <<FlatKinds[((k - 1) % Len(FlatKinds)) + 1], SP, ToString(k)>>,
     startLine |-> a, endLine |-> b, size |-> 10 * k + (b - a)]

LineRanges == {r \in (1..MaxLine) \X (1..MaxLine) : r[1] <= r[2]}

\* Any flat list of 0..MaxElements elements.
InitNest ==
    /\ \E n \in 0..MaxElements :
          \E rs \in [1..n -> LineRanges] :
              flat = [k \in 1..n |-> FlatElement(k, rs[k][1], rs[k][2])]
    /\ nested = <<>>
    /\ block = NoBlock
    /\ pc = "flat"
    /\ argv = [header |-> TRUE, parse |-> TRUE, llmsTxt |-> FALSE,
               dryRun |-> FALSE]
    /\ skipContentSet = {}
    /\ disk = <<>>
    /\ unreadable = {}
    /\ includedFiles = <<>>
    /\ codeIndex = <<>>
    /\ codeIndexLineCount = 0
    /\ totalHeaderLines = 0
    /\ output = <<>>
    /\ files = <<>>
    /\ recreate = [dryRun |-> FALSE, overwrite |-> FALSE, existing |-> <<>>,
                   threw |-> FALSE]
    /\ target = <<>>

\* `fileObj.codeElements = nestElements(flat)`
Nest ==
    /\ pc = "flat"
    /\ nested' = nestElements(flat)
    /\ pc' = "nested"
    /\ UNCHANGED <<flat, block, argv, skipContentSet, disk, unreadable,
                   includedFiles, codeIndex, codeIndexLineCount,
                   totalHeaderLines, output, files, recreate, target>>

NextNest == Nest

SpecNest == InitNest /\ [][NextNest]_vars

----------------------------------------------------------------------------
(* LEGACY DOCUMENTS: documents of up to MaxFiles blocks as the older        *)
(* version of the program wrote them (fences of three backticks), and the   *)
(* same with fences of four backticks, given to recreateFromFile.           *)

\* A fence line of n backticks.
LegacyFence(n) == [i \in 1..n |-> BT]

\* The older output loop: the header line, the fence, the file's text, a
\* newline and the closing fence.
LegacyBlock(entry, n) ==
    <<LEGACY_HDR, SP, BT>> \o entry.path \o <<BT, NL>>
    \o LegacyFence(n) \o <<NL>>
    \o entry.content
    \o <<NL>> \o LegacyFence(n) \o <<NL, NL>>

RECURSIVE LegacyDoc(_, _)
LegacyDoc(entries, n) ==
    IF entries = <<>> THEN <<>>
    ELSE LegacyBlock(Head(entries), n) \o LegacyDoc(Tail(entries), n)

LegacyPaths == {<<"a", ".js">>, <<"my", SP, "dir", SLASH, "b", ".py">>}
LegacyContents == {<<>>, <<"x">>, <<"x", NL>>, <<"x", NL, "x">>}

\* The entry lists of 1..MaxFiles files.
LegacyEntryLists ==
    UNION {[1..n -> [path : LegacyPaths, content : LegacyContents]] :
              n \in 1..MaxFiles}

InitLegacy ==
    /\ \E entries \in LegacyEntryLists, n \in {3, 4} :
          output = LegacyDoc(entries, n)
    /\ pc = "given"
    /\ argv = [header |-> FALSE, parse |-> TRUE, llmsTxt |-> FALSE,
               dryRun |-> FALSE]
    /\ skipContentSet = {}
    /\ disk = <<>>
    /\ unreadable = {}
    /\ includedFiles = <<>>
    /\ codeIndex = <<>>
    /\ codeIndexLineCount = 0
    /\ totalHeaderLines = 0
    /\ files = <<>>
    /\ recreate = [dryRun |-> FALSE, overwrite |-> FALSE, existing |-> <<>>,
                   threw |-> FALSE]
    /\ target = <<>>
    /\ flat = <<>>
    /\ nested = <<>>
    /\ block = NoBlock

NextRecreate ==
    \/ RecreateParse
    \/ RecreateWrite

SpecLegacy == InitLegacy /\ [][NextRecreate]_vars

----------------------------------------------------------------------------
(* PLACEHOLDER-LIKE CONTENT: runs over files whose lines are plain text,   *)
(* text that begins like the placeholder, or the placeholder line itself.  *)

OmitPathUniverse ==
    << <<"a", ".js">>, <<"my", SP, "dir", SLASH, "b", ".py">> >>

OmitLineTexts ==
    {<<"x">>, <<OMITTED_PREFIX, " by hand)">>, OmittedLine("9B")}

OmitFlags == {f \in Flags : f.header = f.parse /\ ~f.llmsTxt}

InitOmit ==
    InitOf(Cases(FileLists(OmitPathUniverse, MaxFiles),
                 Texts(OmitLineTexts, MaxLines)),
           OmitFlags)

SpecOmit == InitOmit /\ [][Next]_vars

(* THE PYTHON FILES of up to MaxPyLines lines, each blank or a class head, *)
(* a constructor head or a statement at one of three indentations.        *)

MaxPyLines == 4
MaxPyIndent == 2

PyLineTexts ==
    {<<>>} \cup {Ind(d) \o <<c>> : d \in 0..MaxPyIndent,
                                   c \in {ClassHead, FnHead("__init__"), "x"}}

InitPython ==
    \E n \in 1..MaxPyLines :
        \E ls \in [1..n -> PyLineTexts] :
            InitOf({<<DiskFile(<<"m", ".py">>, Join(ls, NL), "read")>>},
                   ScanFlags)

\* The read loop alone: it scans and nests the elements of the file.
NextRead == ReadFiles

SpecPython == InitPython /\ [][NextRead]_vars

(* THE BLOCK-END FINDERS, applied to any array of up to MaxBlockLines     *)
(* lines and any start line in it, as the parsers call them.              *)

MaxBlockLines == 4

QUOTE == "\""
COMMENT == "//"

\* Lines with braces alone, in pairs, in a string and in a comment.
BraceLineTexts ==
    {<<"x">>, <<LBRACE>>, <<RBRACE>>, <<RBRACE, LBRACE>>, <<LBRACE, RBRACE>>,
     <<COMMENT, RBRACE>>, <<QUOTE, LBRACE, QUOTE>>}

\* Blank lines, empty or of spaces, and statements at three indentations.
IndentLineTexts ==
    {<<>>, <<SP, SP>>, <<"x">>, <<SP, "x">>, <<SP, SP, "x">>}

InitBlockOf(texts) ==
    /\ \E n \in 1..MaxBlockLines :
          \E ls \in [1..n -> texts] :
              \E s \in 0..(n - 1) :
                  block = [lines |-> ls, startLine |-> s, end |-> s]
    /\ pc = "block"
    /\ argv = [header |-> TRUE, parse |-> TRUE, llmsTxt |-> FALSE,
               dryRun |-> FALSE]
    /\ skipContentSet = {}
    /\ disk = <<>>
    /\ unreadable = {}
    /\ includedFiles = <<>>
    /\ codeIndex = <<>>
    /\ codeIndexLineCount = 0
    /\ totalHeaderLines = 0
    /\ output = <<>>
    /\ files = <<>>
    /\ recreate = [dryRun |-> FALSE, overwrite |-> FALSE, existing |-> <<>>,
                   threw |-> FALSE]
    /\ target = <<>>
    /\ flat = <<>>
    /\ nested = <<>>

\* `const end = findBraceBlockEnd(lines, i);`
FindBraceBlockEnd ==
    /\ pc = "block"
    /\ block' = [block EXCEPT
                    !.end = findBraceBlockEnd(block.lines, block.startLine)]
    /\ pc' = "brace_end"
    /\ UNCHANGED <<argv, skipContentSet, disk, unreadable, includedFiles,
                   codeIndex, codeIndexLineCount, totalHeaderLines, output,
                   files, recreate, target, flat, nested>>

\* `const end = findIndentBlockEnd(lines, i);`
FindIndentBlockEnd ==
    /\ pc = "block"
    /\ block' = [block EXCEPT
                    !.end = findIndentBlockEnd(block.lines, block.startLine)]
    /\ pc' = "indent_end"
    /\ UNCHANGED <<argv, skipContentSet, disk, unreadable, includedFiles,
                   codeIndex, codeIndexLineCount, totalHeaderLines, output,
                   files, recreate, target, flat, nested>>

InitBrace == InitBlockOf(BraceLineTexts)
NextBrace == FindBraceBlockEnd
SpecBrace == InitBrace /\ [][NextBrace]_vars

InitIndent == InitBlockOf(IndentLineTexts)
NextIndent == FindIndentBlockEnd
SpecIndent == InitIndent /\ [][NextIndent]_vars

(* THE FILES WITH FENCES of their own: lines of three backticks, with and  *)
(* without a language tag, and of four.                                   *)

TripleFence == <<BT, BT, BT>>

FenceLineTexts == {<<"x">>, TripleFence, TripleFence \o <<"js">>, Fence}

InitFence ==
    InitOf(Cases(FileLists(OmitPathUniverse, MaxFiles),
                 Texts(FenceLineTexts, MaxLines)),
           OmitFlags)

SpecFence == InitFence /\ [][Next]_vars

(* THE DOCUMENTS GIVEN TO --recreate that no merge wrote: any path text   *)
(* stands in their headers.                                               *)

\* One block of the current format, its annotation any bracketed text.
GivenBlock(entry) ==
    <<HDR, SP>> \o entry.path \o <<SP, LB, "x", RB, NL>>
    \o Fence \o <<NL>>
    \o entry.content
    \o <<NL>> \o Fence \o <<NL, NL>>

RECURSIVE GivenDoc(_)
GivenDoc(entries) ==
    IF entries = <<>> THEN <<>>
    ELSE GivenBlock(Head(entries)) \o GivenDoc(Tail(entries))

\* Paths below the output directory, with a leading separator, and with
\* `..` segments that stay below it or climb out of it.
GivenPaths ==
    {<<"a", ".js">>,
     <<SLASH, "a", ".js">>,
     <<"d", SLASH, "..", SLASH, "a", ".js">>,
     <<"..", SLASH, "a", ".js">>,
     <<"d", SLASH, "..", SLASH, "..", SLASH, "e", SLASH, "a", ".js">>}

GivenContents == {<<"x">>, <<"x", NL, "x">>}

InitGiven ==
    /\ \E n \in 1..MaxFiles :
          \E entries \in [1..n -> [path : GivenPaths, content : GivenContents]] :
              output = GivenDoc(entries)
    /\ pc = "given"
    /\ argv = [header |-> FALSE, parse |-> TRUE, llmsTxt |-> FALSE,
               dryRun |-> FALSE]
    /\ skipContentSet = {}
    /\ disk = <<>>
    /\ unreadable = {}
    /\ includedFiles = <<>>
    /\ codeIndex = <<>>
    /\ codeIndexLineCount = 0
    /\ totalHeaderLines = 0
    /\ files = <<>>
    /\ recreate = [dryRun |-> FALSE, overwrite |-> FALSE, existing |-> <<>>,
                   threw |-> FALSE]
    /\ target = <<>>
    /\ flat = <<>>
    /\ nested = <<>>
    /\ block = NoBlock

SpecGiven == InitGiven /\ [][NextRecreate]_vars

----------------------------------------------------------------------------
(* THE PROPERTIES.                                                         *)

\* The states right after the step that sets what a property speaks of (no
\* later step changes it): the files are scanned, the final ML table stands,
\* the document is written, recreateFromFile has parsed it.
Scanned == pc = "read"
Resolved == pc = "resolved"
Written == pc = "written"
Parsed == pc \in {"parsed", "no_files_found"}

\* Line n of the merged document is DocLines[n].
DocLines == Split(output, NL)

NotSkipped(f) == f.relativePath \notin skipContentSet

\* The two texts are equal, or differ by one final newline.
SameUpToFinalNewline(e, c) ==
    \/ e = c
    \/ e \o <<NL>> = c
    \/ e = c \o <<NL>>

\* C1.  Round-trip of content: when no content is omitted, the content of
\* every merged file is, up to one final newline, the content of one of the
\* entries extraction yields.
ContentRoundTrip ==
    Parsed /\ skipContentSet = {} =>
        \A i \in 1..Len(includedFiles) :
            \E j \in 1..Len(files) :
                SameUpToFinalNewline(files[j].content,
                                     includedFiles[i].content)

\* No backtick, header text or placeholder text in the content.
PlainContent(c) ==
    \A k \in 1..Len(c) : c[k] \notin {BT, HDR, LEGACY_HDR, OMITTED_PREFIX}

RECURSIVE PathsOf(_)
PathsOf(fs) ==
    IF fs = <<>> THEN <<>> ELSE <<Head(fs).path>> \o PathsOf(Tail(fs))

RECURSIVE WrittenPaths(_)
\* The paths in the headers of the non-omitted FileBlocks, in document order.
WrittenPaths(fs) ==
    IF fs = <<>> THEN <<>>
    ELSE (IF NotSkipped(Head(fs))
          THEN <<ReplaceBackslashes(Head(fs).relativePath)>> ELSE <<>>)
         \o WrittenPaths(Tail(fs))

\* C2.  Round-trip of paths and order: when every content is plain text, the
\* paths of the extracted entries are the paths written in the headers of
\* the non-omitted FileBlocks, one entry per block and in document order.
PathRoundTrip ==
    Parsed /\ (\A i \in 1..Len(includedFiles) :
                  PlainContent(includedFiles[i].content)) =>
        PathsOf(files) = WrittenPaths(includedFiles)

\* The largest line number a document of these runs can show.
MaxNumber == 200

\* The number a lexeme prints.
Num(lexeme) == CHOOSE k \in 0..MaxNumber : ToString(k) = lexeme

\* The place of the first lexeme `key` of the line.
PlaceOf(line, key) ==
    CHOOSE i \in 1..Len(line) :
        line[i] = key /\ \A j \in 1..(i - 1) : line[j] # key

\* The <<first, last>> the line prints after "OL: " and after "ML: ".
OlOf(line) ==
    <<Num(line[PlaceOf(line, "OL: ") + 1]), Num(line[PlaceOf(line, "OL: ") + 3])>>
MlOf(line) ==
    <<Num(line[PlaceOf(line, "ML: ") + 1]), Num(line[PlaceOf(line, "ML: ") + 3])>>

\* C3.  ML accuracy: in the written document, for every file whose content
\* is kept and every k in 1..lineCount, line mlStart + k - 1 of the document
\* is line k of the file's content.
MlAccuracy ==
    Written =>
        \A i \in 1..Len(includedFiles) :
            LET f == includedFiles[i]
            IN  NotSkipped(f) =>
                    \A k \in 1..f.lineCount :
                        /\ f.mlStart + k - 1 \in 1..Len(DocLines)
                        /\ DocLines[f.mlStart + k - 1] = Split(f.content, NL)[k]

\* A document with the header whose second file keeps two lines, the last
\* of them at line mlEnd.
MlAccuracyWitness ==
    /\ pc = "written"
    /\ argv.header
    /\ Len(includedFiles) = 2
    /\ NotSkipped(includedFiles[2])
    /\ includedFiles[2].lineCount = 2
    /\ includedFiles[2].mlEnd = includedFiles[2].mlStart + 1
    /\ DocLines[includedFiles[2].mlEnd] = <<FnHead("f")>>

\* C4.  Fence adjacency: for every file, omitted or not, the document line
\* before line mlStart and the one after line mlEnd are exactly "````".
FenceAdjacency ==
    Written =>
        \A i \in 1..Len(includedFiles) :
            LET f == includedFiles[i]
            IN  /\ f.mlStart - 1 \in 1..Len(DocLines)
                /\ f.mlEnd + 1 \in 1..Len(DocLines)
                /\ DocLines[f.mlStart - 1] = Fence
                /\ DocLines[f.mlEnd + 1] = Fence

\* A document whose first file is omitted and whose second keeps two lines.
FenceAdjacencyWitness ==
    /\ pc = "written"
    /\ Len(includedFiles) = 2
    /\ ~NotSkipped(includedFiles[1])
    /\ NotSkipped(includedFiles[2])
    /\ includedFiles[2].lineCount = 2
    /\ DocLines[includedFiles[2].mlStart - 1] = Fence

\* C5.  Content preservation: in the final ML table, for every file whose
\* content is kept, mlEnd - mlStart = olEnd - olStart with the OL range
\* 1..lineCount.
ContentPreservation ==
    Resolved =>
        \A i \in 1..Len(includedFiles) :
            LET f == includedFiles[i]
                olStart == 1
                olEnd == f.lineCount
            IN  NotSkipped(f) => f.mlEnd - f.mlStart = olEnd - olStart

\* A final table with a kept file of two lines after an omitted file.
ContentPreservationWitness ==
    /\ pc = "resolved"
    /\ Len(includedFiles) = 2
    /\ ~NotSkipped(includedFiles[1])
    /\ NotSkipped(includedFiles[2])
    /\ includedFiles[2].lineCount = 2
    /\ includedFiles[2].mlEnd = includedFiles[2].mlStart + 1

ResolverIdempotence ==
    Resolved =>
        LET count == CountLines(codeIndex)
            headerLines == HeaderLineCount(argv.header, systemPrompt, count)
            fs == RecalculateMlOffsets(includedFiles, skipContentSet,
                                       headerLines)
            index == generateCodeIndex(fs, RootName, skipContentSet,
                                       ~argv.parse)
        IN  /\ count = codeIndexLineCount
            /\ fs = includedFiles
            /\ index = codeIndex

\* A final table of two files under the header, the first file's content
\* starting below the code index.
ResolverIdempotenceWitness ==
    /\ pc = "resolved"
    /\ argv.header
    /\ Len(includedFiles) = 2
    /\ includedFiles[1].mlStart = totalHeaderLines + 3
    /\ includedFiles[1].mlStart > codeIndexLineCount + 3

\* Every element of the file's forest.
ElementsOf(f) == Range(FlattenForest(f.codeElements))

\* C7.  Element bounds: every element of every scanned file has
\* 1 <= startLine <= endLine <= lineCount, and the range of every child lies
\* within the range of its parent.
ElementBounds ==
    Scanned =>
        \A i \in 1..Len(includedFiles) :
            \A el \in ElementsOf(includedFiles[i]) :
                /\ 1 <= el.startLine
                /\ el.startLine <= el.endLine
                /\ el.endLine <= includedFiles[i].lineCount
                /\ \A c \in Range(el.children) :
                      el.startLine <= c.startLine /\ c.endLine <= el.endLine

\* The lines between the lines `open` and `close` of the document.
Section(doc, open, close) ==
    LET a == CHOOSE i \in 1..Len(doc) : doc[i] = <<open>>
        b == CHOOSE i \in 1..Len(doc) : doc[i] = <<close>>
    IN  SubSeq(doc, a + 1, b - 1)

\* The line ends with an annotation `[OL: a-b | ML: c-d | size]`.
Annotated(line) ==
    /\ Len(line) >= 14
    /\ line[Len(line)] = RB
    /\ line[Len(line) - 11] = "OL: "
    /\ line[Len(line) - 6] = "ML: "

\* A file line of the code index: the name that the annotation follows ends
\* with an extension.  Any other annotated line is an element line.
IsFileLine(line) == Annotated(line) /\ line[Len(line) - 14] \in Extensions
IsElementLine(line) == Annotated(line) /\ ~IsFileLine(line)
\* A header line of the merged-code body.
IsHeaderLine(line) == Annotated(line) /\ line[1] = HDR

MlRangesOf(lines) == [i \in 1..Len(lines) |-> MlOf(lines[i])]

\* The file line an element line of the index stands under.
OwnerOf(index, j) ==
    index[CHOOSE i \in 1..(j - 1) :
            /\ IsFileLine(index[i])
            /\ \A k \in (i + 1)..(j - 1) : ~IsFileLine(index[k])]

\* C9.  Code-index consistency: the file lines of the emitted code index
\* carry, file by file, the ML ranges of the FileBlock headers; every element
\* line carries the ML range [m + startLine - 1, m + endLine - 1] for the
\* mlStart m of its file line and its own OL range, so both ranges have the
\* same length.
CodeIndexConsistency ==
    Written /\ argv.header =>
        LET index == Section(DocLines, "<code_index>", "</code_index>")
            body == Section(DocLines, "<merged_code>", "</merged_code>")
        IN  /\ MlRangesOf(SelectSeq(index, IsFileLine))
                 = MlRangesOf(SelectSeq(body, IsHeaderLine))
            /\ Len(SelectSeq(index, IsFileLine)) = Len(includedFiles)
            /\ \A j \in 1..Len(index) :
                  IsElementLine(index[j]) =>
                      LET m == MlOf(OwnerOf(index, j))[1]
                          ol == OlOf(index[j])
                          ml == MlOf(index[j])
                      IN  /\ ml = <<m + ol[1] - 1, m + ol[2] - 1>>
                          /\ ml[2] - ml[1] = ol[2] - ol[1]

\* A document whose second file shows an element with a child in the index.
CodeIndexConsistencyWitness ==
    /\ pc = "written"
    /\ argv.header
    /\ Len(includedFiles) = 2
    /\ includedFiles[2].codeElements # <<>>
    /\ includedFiles[2].codeElements[1].children # <<>>
    /\ \E j \in 1..Len(Section(DocLines, "<code_index>", "</code_index>")) :
          IsElementLine(Section(DocLines, "<code_index>", "</code_index>")[j])

\* C10.  Loop-length filter: no scanned element of kind `loop` has a span
\* (endLine - startLine + 1) of 5 lines or less.
LoopLengthFilter ==
    Scanned =>
        \A i \in 1..Len(includedFiles) :
            \A el \in ElementsOf(includedFiles[i]) :
                el.type = "loop" => ~(el.endLine - el.startLine + 1 <= 5)

\* A scanned file with a loop of six lines, the shortest one kept.
LoopLengthFilterWitness ==
    /\ pc = "read"
    /\ \E i \in 1..Len(includedFiles) :
          \E el \in ElementsOf(includedFiles[i]) :
              el.type = "loop" /\ el.endLine - el.startLine + 1 = 6


\* The line ranges of the nodes are in ascending order of startLine.
Ascending(nodes) ==
    \A k \in 1..(Len(nodes) - 1) : nodes[k].startLine <= nodes[k + 1].startLine

\* C11.  Nester containment: in the forest nestElements returns for any flat
\* list, the range of every child lies within the range of its parent, and
\* the children of every node, and the roots, are in ascending order of
\* startLine.
NesterContainment ==
    pc = "nested" =>
        /\ Ascending(nested)
        /\ \A node \in Range(FlattenForest(nested)) :
              /\ Ascending(node.children)
              /\ \A c \in Range(node.children) :
                    /\ node.startLine <= c.startLine
                    /\ c.endLine <= node.endLine

\* A forest of one root with a child that has a child.
NesterContainmentWitness ==
    /\ pc = "nested"
    /\ Len(nested) = 1
    /\ Len(nested[1].children) = 1
    /\ Len(nested[1].children[1].children) = 1
    /\ nested[1].children[1].startLine > nested[1].startLine


\* The line ranges of the two nodes share no line.
Disjoint(a, b) == a.endLine < b.startLine \/ b.endLine < a.startLine

NoOverlap(nodes) ==
    \A j, k \in 1..Len(nodes) : j # k => Disjoint(nodes[j], nodes[k])

\* C12.  Nester sibling disjointness: in the forest of every scanned file,
\* no two roots and no two children of the same node have line ranges that
\* overlap.
SiblingDisjointness ==
    Scanned =>
        \A i \in 1..Len(includedFiles) :
            /\ NoOverlap(includedFiles[i].codeElements)
            /\ \A node \in ElementsOf(includedFiles[i]) :
                  NoOverlap(node.children)


\* recreateFromFile has run its write loop.
Recreated == pc = "recreated"

\* The place of the k-th extracted file below the output directory.
PlaceOfFile(k) == fullPath(files[k].path)

\* The k-th extracted file stands in the output directory with its content.
IsWritten(k) ==
    PlaceOfFile(k) \in DOMAIN target /\ target[PlaceOfFile(k)] = files[k].content

\* C13.  Overwrite protection: in an extraction that is no dry run, into a
\* directory that already holds the first target file, that file keeps its
\* old text when the overwrite flag is false and gets the extracted content
\* when it is true; either way every other extracted file is written and
\* the run does not abort.
OverwriteProtection ==
    Recreated /\ ~recreate.dryRun /\ recreate.existing # <<>> =>
        /\ PlaceOfFile(1) \in DOMAIN target
        /\ ~recreate.overwrite => target[PlaceOfFile(1)] = OldText
        /\ recreate.overwrite => target[PlaceOfFile(1)] = files[1].content
        /\ \A k \in 2..Len(files) : IsWritten(k)
        /\ ~recreate.threw

\* An extraction of two files without the overwrite flag: the first was
\* there and keeps its old text, the second is written.
OverwriteProtectionWitness ==
    /\ pc = "recreated"
    /\ ~recreate.dryRun
    /\ ~recreate.overwrite
    /\ recreate.existing # <<>>
    /\ Len(files) = 2
    /\ target[PlaceOfFile(1)] = OldText
    /\ IsWritten(2)


\* C14.  Dry run changes nothing: an extraction with the dry-run flag leaves
\* the output directory as it found it, whatever the overwrite flag and
\* whether or not a target was there, and no call throws; a merge with the
\* dry-run flag writes no document (and so is never followed by a write).
DryRunChangesNothing ==
    /\ Recreated /\ recreate.dryRun =>
          target = recreate.existing /\ ~recreate.threw
    /\ argv.dryRun =>
          output = <<>> /\ pc \in {"start", "read", "provisional", "resolved",
                                   "done", "no_files_to_include"}

\* A dry-run extraction of two files with the overwrite flag into a
\* directory that holds the first of them.
DryRunChangesNothingWitness ==
    /\ pc = "recreated"
    /\ recreate.dryRun
    /\ recreate.overwrite
    /\ recreate.existing # <<>>
    /\ Len(files) = 2
    /\ target[PlaceOfFile(1)] = OldText
    /\ PlaceOfFile(2) \notin DOMAIN target


\* C15.  No files found: extraction ends in the fatal "no files found"
\* condition exactly when neither the current pattern nor the legacy pattern
\* matches anywhere in the document, and then the output directory is not
\* touched.
NoFilesFoundExact ==
    Parsed =>
        /\ pc = "no_files_found" <=>
              Hits(output, 1, FALSE) = {} /\ Hits(output, 1, TRUE) = {}
        /\ pc = "no_files_found" => target = <<>>


\* C16.  Legacy extraction: a document of the older format (the header line
\* ### **FILE:** `path`, a fence of three backticks, the content, a fence of
\* three backticks), holding no block of the current format, is extracted
\* into one (path, content) entry per block, in document order.
LegacyExtraction ==
    Parsed =>
        \A entries \in LegacyEntryLists :
            output = LegacyDoc(entries, 3) => files = entries


\* The literal text between the fences of the file's FileBlock.
BodyOf(f) ==
    IF ~NotSkipped(f) THEN OmittedLine(f.formattedSize)
    ELSE IF EndsWith(f.content, NL)
    THEN SubSeq(f.content, 1, Len(f.content) - 1)
    ELSE f.content

\* The body is exactly the placeholder line.
IsPlaceholder(body) ==
    /\ Len(body) = 4
    /\ body = OmittedLine(body[3])

RECURSIVE ExpectedEntries(_)
\* One entry for every block whose body is not the placeholder line: the
\* written path and the literal body.
ExpectedEntries(fs) ==
    IF fs = <<>> THEN <<>>
    ELSE (IF IsPlaceholder(BodyOf(Head(fs))) THEN <<>>
          ELSE <<[path |-> ReplaceBackslashes(Head(fs).relativePath),
                  content |-> BodyOf(Head(fs))]>>)
         \o ExpectedEntries(Tail(fs))

\* C17.  Omission skip is exact: extraction skips a FileBlock exactly when
\* its body is the placeholder line; every other block, one whose content
\* merely begins with `(Content omitted` included, yields an entry whose
\* content is the literal text between its fences.
OmissionSkipExact ==
    Parsed => files = ExpectedEntries(includedFiles)


\* C18.  Per-file read failure: in the document of a run in which a read
\* failed, the file whose read failed has line count 1 and no code elements,
\* and its FileBlock body is the one line of the error marker between the
\* fences; every other file whose content is kept shows its own text from
\* disk, line by line, at lines mlStart..mlEnd.
ReadFailure ==
    Written /\ unreadable # {} =>
        \A i \in 1..Len(includedFiles) :
            LET f == includedFiles[i]
                text == disk[f.relativePath]
            IN  NotSkipped(f) =>
                    IF f.relativePath \in unreadable
                    THEN /\ f.lineCount = 1
                         /\ f.codeElements = <<>>
                         /\ f.mlEnd = f.mlStart
                         /\ DocLines[f.mlStart - 1] = Fence
                         /\ DocLines[f.mlStart] = ReadErrorText
                         /\ DocLines[f.mlStart + 1] = Fence
                    ELSE /\ f.mlEnd - f.mlStart + 1 = CountLines(text)
                         /\ \A k \in 1..CountLines(text) :
                               DocLines[f.mlStart + k - 1] = Split(text, NL)[k]
                         /\ DocLines[f.mlStart - 1] = Fence
                         /\ DocLines[f.mlEnd + 1] = Fence

\* A document under the header whose first file could not be read and whose
\* second file shows its two lines.
ReadFailureWitness ==
    /\ pc = "written"
    /\ argv.header
    /\ Len(includedFiles) = 2
    /\ includedFiles[1].relativePath \in unreadable
    /\ DocLines[includedFiles[1].mlStart] = ReadErrorText
    /\ NotSkipped(includedFiles[2])
    /\ includedFiles[2].relativePath \notin unreadable
    /\ includedFiles[2].lineCount = 2


\* The kinds of line of the code index that are no element lines.
IsRootLine(line) == line = <<RootName, SLASH>>
IsDirLine(line) ==
    /\ Len(line) >= 3
    /\ line[Len(line)] = SLASH
    /\ \E c \in 1..(Len(line) - 2) :
          /\ line[c] \in {TEE, ELBOW}
          /\ \A d \in 1..(c - 1) : line[d] \in {PIPE, BLANK4}
IsOmissionLine(line) ==
    /\ Len(line) >= 5
    /\ SubSeq(line, Len(line) - 3, Len(line)) = OmittedLine(line[Len(line) - 1])
    /\ \A d \in 1..(Len(line) - 4) : line[d] \in {PIPE, BLANK4}

\* C19.  Parsing disabled: in the document of a run with the parse flag off,
\* every file's element forest is empty, the merged-code body holds the
\* header line of every file, and the code index (emitted with the header)
\* is the root line followed by directory lines, one file line per file and
\* placeholder lines only: it holds no element line.
ParsingDisabled ==
    Written /\ ~argv.parse =>
        /\ \A i \in 1..Len(includedFiles) :
              /\ includedFiles[i].codeElements = <<>>
              /\ IsHeaderLine(DocLines[includedFiles[i].mlStart - 2])
        /\ <<"<merged_code>">> \in Range(DocLines)
        /\ argv.header =>
              LET index == Section(DocLines, "<code_index>", "</code_index>")
              IN  /\ IsRootLine(index[1])
                  /\ \A j \in 2..Len(index) :
                        /\ \/ IsDirLine(index[j])
                           \/ IsFileLine(index[j])
                           \/ IsOmissionLine(index[j])
                        /\ ~IsElementLine(index[j])
                  /\ Len(SelectSeq(index, IsFileLine)) = Len(includedFiles)

\* A document under the header, written with the parse flag off, whose
\* first file is omitted and whose second file holds a declaration the
\* scanner would report.
ParsingDisabledWitness ==
    /\ pc = "written"
    /\ ~argv.parse
    /\ argv.header
    /\ Len(includedFiles) = 2
    /\ ~NotSkipped(includedFiles[1])
    /\ NotSkipped(includedFiles[2])
    /\ parseCodeStructure(includedFiles[2].relativePath,
                          includedFiles[2].content) # <<>>


\* C20.  Header disabled: the document of a run with the header flag off
\* holds neither prompt text nor a code index section; its first line is
\* `<merged_code>`; every file has its FileBlock (the header line with its
\* path, the fence, and its content or the placeholder at lines
\* mlStart..mlEnd, the fence); the first file's content starts at line 4.
HeaderDisabled ==
    Written /\ ~argv.header =>
        /\ \A k \in 1..Len(output) :
              output[k] \notin {PromptLine, "<code_index>", "</code_index>"}
        /\ DocLines[1] = <<"<merged_code>">>
        /\ includedFiles[1].mlStart = 4
        /\ \A i \in 1..Len(includedFiles) :
              LET f == includedFiles[i]
                  header == DocLines[f.mlStart - 2]
              IN  /\ IsHeaderLine(header)
                  /\ SubSeq(header, 3, 2 + Len(f.relativePath))
                        = f.relativePath
                  /\ DocLines[f.mlStart - 1] = Fence
                  /\ DocLines[f.mlEnd + 1] = Fence
                  /\ IF NotSkipped(f)
                     THEN \A k \in 1..f.lineCount :
                             DocLines[f.mlStart + k - 1]
                                = Split(f.content, NL)[k]
                     ELSE DocLines[f.mlStart] = OmittedLine(f.formattedSize)

\* A document without the header of two files, the first of two lines.
HeaderDisabledWitness ==
    /\ pc = "written"
    /\ ~argv.header
    /\ Len(includedFiles) = 2
    /\ NotSkipped(includedFiles[1])
    /\ includedFiles[1].lineCount = 2
    /\ DocLines[4] = Split(includedFiles[1].content, NL)[1]
    /\ includedFiles[2].mlStart = 10

\* The declaration head on the first line of the element.
DeclOf(f, el) == Head(TrimLeft(Split(f.content, NL)[el.startLine]))

FunctionLike(head) == head \in FnHeads \cup AsyncHeads \cup BareHeads

\* The kind the one rule gives a function-like declaration: its name first,
\* then its prefix, then its modifier.
UniformKind(head) ==
    IF NameOf(head) \in {"__init__", "constructor", "initialize",
                         "__construct", "init"}
    THEN "ctor"
    ELSE IF \/ StartsWith_test(NameOf(head))
            \/ StartsWith_Test(NameOf(head))
            \/ StartsWith_test_(NameOf(head))
    THEN "test"
    ELSE IF head \in AsyncHeads THEN "async"
    ELSE "fn"

\* C21.  Uniform classification: in every language a function-like
\* declaration has the kind `ctor` when its name is constructor-like, else
\* `test` when its name begins with test / Test / test_, else `async` when
\* it has the async modifier, else `fn`.
UniformClassification ==
    Scanned =>
        \A i \in 1..Len(includedFiles) :
            \A el \in ElementsOf(includedFiles[i]) :
                FunctionLike(DeclOf(includedFiles[i], el)) =>
                    el.type = UniformKind(DeclOf(includedFiles[i], el))

\* The 1-based line n of the file's text.
LineAt(f, n) == Split(f.content, NL)[n]

\* Node d is c or lies below c in the forest.
IsDescendant(d, c) == d \in Range(FlattenForest(c.children))

ReadUpTo(i, j) ==
    UNION {{<<a, b>> : b \in 1..(IF a < i THEN Len(block.lines[a]) ELSE j)} :
              a \in (block.startLine + 1)..i}

OpensUpTo(i, j) ==
    Cardinality({p \in ReadUpTo(i, j) : block.lines[p[1]][p[2]] = LBRACE})

ClosesUpTo(i, j) ==
    Cardinality({p \in ReadUpTo(i, j) : block.lines[p[1]][p[2]] = RBRACE})

\* A `}` on the 1-based line i brings the depth to zero after a `{`.
ClosesBlock(i) ==
    \E j \in 1..Len(block.lines[i]) :
        /\ block.lines[i][j] = RBRACE
        /\ OpensUpTo(i, j) >= 1
        /\ OpensUpTo(i, j) = ClosesUpTo(i, j)

\* C23.  Brace counting: the block that starts on a line ends on the first
\* line, from the start line on, on which a `}` brings the depth to zero
\* after at least one `{`, braces in strings and comments counted like any
\* other; when no line does, on the last line of the array; and never
\* before the start line.
BraceCounting ==
    pc = "brace_end" =>
        /\ block.end >= block.startLine
        /\ IF \E i \in (block.startLine + 1)..Len(block.lines) : ClosesBlock(i)
           THEN /\ ClosesBlock(block.end + 1)
                /\ \A i \in (block.startLine + 1)..block.end : ~ClosesBlock(i)
           ELSE block.end = Len(block.lines) - 1

\* A block opened by a brace in a string and closed by a brace in a
\* comment, on the line before the last.
BraceCountingWitness ==
    /\ pc = "brace_end"
    /\ block.lines = << <<"x">>, <<QUOTE, LBRACE, QUOTE>>,
                        <<COMMENT, RBRACE>>, <<RBRACE>> >>
    /\ block.startLine = 1
    /\ block.end = 2


\* The 1-based line i is not blank and is indented no more than the line
\* that starts the block.
EndsIndentBlock(i) ==
    /\ Trim(block.lines[i]) # <<>>
    /\ LeadingSpace(block.lines[i])
          <= LeadingSpace(block.lines[block.startLine + 1])

\* C24.  Indent counting: the block ends on the line immediately before the
\* first later non-blank line indented no more than the line that starts it
\* (blank lines before that line are part of the block and never end it),
\* and on the last line of the array when there is no such line.
IndentCounting ==
    pc = "indent_end" =>
        IF \E i \in (block.startLine + 2)..Len(block.lines) : EndsIndentBlock(i)
        THEN \E i \in (block.startLine + 2)..Len(block.lines) :
                /\ EndsIndentBlock(i)
                /\ \A k \in (block.startLine + 2)..(i - 1) : ~EndsIndentBlock(k)
                /\ block.end + 1 = i - 1
        ELSE block.end = Len(block.lines) - 1

\* An indented block of a statement and a blank line, ended by a line at a
\* lesser indentation: the blank line is its last line.
IndentCountingWitness ==
    /\ pc = "indent_end"
    /\ block.lines = << <<SP, "x">>, <<SP, SP, "x">>, <<>>, <<"x">> >>
    /\ block.startLine = 0
    /\ block.end = 2


\* The lines of a content, its final newline ending the last of them.
ContentLines(c) ==
    Split(IF EndsWith(c, NL) THEN SubSeq(c, 1, Len(c) - 1) ELSE c, NL)

IsTripleFence(line) == line \in {TripleFence, TripleFence \o <<"js">>}

\* The extracted content e holds line k of the content c and every line
\* after it.
KeepsFrom(e, c, k) ==
    \A m \in k..Len(ContentLines(c)) :
        /\ m <= Len(ContentLines(e))
        /\ ContentLines(e)[m] = ContentLines(c)[m]

\* C25.  No collision with triple-backtick fences: a content line of three
\* backticks, with or without a language tag, never ends the block of its
\* file: the content extracted for the file still holds every such line
\* and every line after it.
NoTripleFenceCollision ==
    Parsed =>
        \A i \in 1..Len(includedFiles) :
            NotSkipped(includedFiles[i]) =>
                \A k \in 1..Len(ContentLines(includedFiles[i].content)) :
                    IsTripleFence(ContentLines(includedFiles[i].content)[k]) =>
                        \E j \in 1..Len(files) :
                            /\ files[j].path =
                                  ReplaceBackslashes(includedFiles[i].relativePath)
                            /\ KeepsFrom(files[j].content,
                                         includedFiles[i].content, k)


\* C26.  Placeholder length at every stage: after the provisional pass and
\* after the final pass, the ML range of an omitted file has length 1
\* (mlEnd = mlStart) and the ML range of every other file has the length of
\* its OL range 1..lineCount.
PlaceholderLength ==
    pc \in {"provisional", "resolved"} =>
        \A i \in 1..Len(includedFiles) :
            IF NotSkipped(includedFiles[i])
            THEN includedFiles[i].mlEnd - includedFiles[i].mlStart + 1
                    = includedFiles[i].lineCount - 1 + 1
            ELSE includedFiles[i].mlEnd = includedFiles[i].mlStart


\* The ranges of the list are distinct and any two are disjoint or nested.
DistinctLaminar(fl) ==
    \A j, k \in 1..Len(fl) :
        j # k =>
            /\ <<fl[j].startLine, fl[j].endLine>> # <<fl[k].startLine, fl[k].endLine>>
            /\ Disjoint(fl[j], fl[k]) \/ Within(fl[j], fl[k]) \/ Within(fl[k], fl[j])

\* The elements of the flat list, other than element k, that contain it.
ContainersOf(k) == {j \in 1..Len(flat) : j # k /\ Within(flat[k], flat[j])}

\* The element of the smallest range among those of S.
Smallest(S) == CHOOSE j \in S : \A i \in S : Within(flat[j], flat[i])

IsRoot(label) == \E r \in Range(nested) : r.label = label

IsChildOf(label, parentLabel) ==
    \E n \in Range(FlattenForest(nested)) :
        n.label = parentLabel /\ \E c \in Range(n.children) : c.label = label

\* C27.  Innermost parent: for a flat list whose ranges are distinct and
\* pairwise disjoint or nested, every element is in the forest the child of
\* the element of the smallest range that contains it, and a root exactly
\* when no other element contains it.
InnermostParent ==
    pc = "nested" /\ DistinctLaminar(flat) =>
        \A k \in 1..Len(flat) :
            IF ContainersOf(k) = {}
            THEN IsRoot(flat[k].label)
            ELSE /\ ~IsRoot(flat[k].label)
                 /\ IsChildOf(flat[k].label, flat[Smallest(ContainersOf(k))].label)

\* A list given innermost element first: lines 2-2, then 1-4, then 2-3,
\* nested as 1-4 over 2-3 over 2-2.
InnermostParentWitness ==
    /\ pc = "nested"
    /\ Len(flat) = 3
    /\ <<flat[1].startLine, flat[1].endLine>> = <<2, 2>>
    /\ <<flat[2].startLine, flat[2].endLine>> = <<1, 4>>
    /\ <<flat[3].startLine, flat[3].endLine>> = <<2, 3>>
    /\ Len(nested) = 1
    /\ nested[1].label = flat[2].label
    /\ Len(nested[1].children) = 1
    /\ nested[1].children[1].label = flat[3].label
    /\ Len(nested[1].children[1].children) = 1
    /\ nested[1].children[1].children[1].label = flat[1].label


\* The node without its children: the fields of the element it was made of.
ElementOf(node) ==
    [type |-> node.type, label |-> node.label, startLine |-> node.startLine,
     endLine |-> node.endLine, size |-> node.size]

\* C28.  Nester conservation: every element of the flat list, whatever its
\* ranges, is exactly one node of the forest, with its kind, label, range
\* and size unchanged; the forest has no other node; and the flat list is
\* still the list that was given.
NesterConservation ==
    pc = "nested" =>
        /\ Len(FlattenForest(nested)) = Len(flat)
        /\ \A k \in 1..Len(flat) :
              Cardinality({m \in 1..Len(FlattenForest(nested)) :
                              ElementOf(FlattenForest(nested)[m]) = flat[k]}) = 1
        /\ \A k \in 1..Len(flat) :
              flat[k] = FlatElement(k, flat[k].startLine, flat[k].endLine)

\* Three elements whose ranges overlap without nesting, given last line
\* first: the forest has three roots.
NesterConservationWitness ==
    /\ pc = "nested"
    /\ Len(flat) = 3
    /\ <<flat[1].startLine, flat[1].endLine>> = <<3, 4>>
    /\ <<flat[2].startLine, flat[2].endLine>> = <<2, 3>>
    /\ <<flat[3].startLine, flat[3].endLine>> = <<1, 2>>
    /\ Len(nested) = 3
    /\ ElementOf(nested[1]) = flat[3]


\* The paths of the table, in its order.
TablePaths == [i \in 1..Len(includedFiles) |-> includedFiles[i].relativePath]

WrittenPlaces ==
    {q \in DOMAIN target :
        q \notin DOMAIN recreate.existing \/ target[q] # recreate.existing[q]}

\* C30.  Extraction stays inside the output directory: whatever path text
\* the headers of the document hold, `..` segments and a leading separator
\* included, every file the extraction writes lies below the resolved output
\* directory.
ExtractionStaysInside ==
    Recreated => \A q \in WrittenPlaces : q.up = 0 /\ q.segs # <<>>


=============================================================================
